---------------------------- MODULE Spec2Model ----------------------------
(***************************************************************************)
(* Inferno-Drift: the per-tick simulation of the arcade racer, in its      *)
(* front-end variants:                                                     *)
(*   - src/app.js                 open arena, respawn on rival contact     *)
(*   - src/unnamed/part_000       spline track (lane / track-distance)     *)
(*   - src/unnamed/part_001:9     section track                            *)
(*   - src/unnamed/part_001:2324  open arena, overheat costs grip           *)
(*   - src/unnamed/part_001:3236  open arena with heat and shield          *)
(*                                                                         *)
(* Numbers.  The code computes in IEEE doubles; the model computes in      *)
(* fixed point and truncates toward zero:                                  *)
(*   time (dt, timers, runTime)      milliseconds                          *)
(*   lengths, speeds                 1/10 unit, 1/10 unit per second       *)
(*   angles                          1/1000 radian                         *)
(*   drift, boost, heat meters       1/1000 point                          *)
(*   combo                           1/10000                               *)
(*   score                           1/100 point                           *)
(*   factors (mods, unit vectors)    1/1000                                *)
(* Math.random() is a nondeterministic draw from a small set.              *)
(***************************************************************************)
EXTENDS Integers, Sequences, FiniteSets, TLC

VARIABLES
    game,            \* src/app.js: the game object
    activeRivals,    \* src/app.js: activeRivals
    activePickups,   \* src/app.js: activePickups
    bounces,         \* observation: the relocations clampToArena made in the latest update
    taken,           \* observation: the meshes collectPickup hid in the latest update
    nears,           \* observation: the near-miss bonuses and the respawns of the latest update, and when the latest of each came
    intent,          \* observation: the control intent the latest update read
    clock,           \* the browser's frame clock (ms), source of tick(now)
    script,          \* the rehearsed opening of the session still to be played
    frames,          \* animation frames delivered after the opening
    spline,          \* src/unnamed/part_000: game, activeRivals, activePickups and its session
    section,         \* src/unnamed/part_001:9: game, its enemies and pickups, the keys, its session
    arena,           \* src/unnamed/part_001:3236: game, activeRivals, activePickups and its session
    arena2,          \* src/unnamed/part_001:2324: game, activeRivals, activePickups and its session
    road,            \* src/unnamed/part_001:631: game, its enemies and pickups, and its session
    built            \* src/unnamed/part_000: the track sample buildTrack pushed last

appVars == <<game, activeRivals, activePickups, bounces, taken, nears, intent, clock, script, frames>>

\* the pages of the other variants
variants == <<spline, section, arena, arena2, road, built>>

\* what the sessions of one page leave alone: the other pages
besideSpline == <<appVars, section, arena, arena2, road, built>>
besideSection == <<appVars, spline, arena, arena2, road, built>>
besideArena == <<appVars, spline, section, arena2, road, built>>
besideArena2 == <<appVars, spline, section, arena, road, built>>
besideRoad == <<appVars, spline, section, arena, arena2, built>>
besideTrack == <<appVars, spline, section, arena, arena2, road>>

vars == <<appVars, variants>>

---------------------------------------------------------------------------
(* Arithmetic helpers *)

Abs(x) == IF x < 0 THEN -x ELSE x
Min(a, b) == IF a < b THEN a ELSE b
Max(a, b) == IF a > b THEN a ELSE b

\* a / c, truncated toward zero (c > 0)
Trunc(a, c) == IF a >= 0 THEN a \div c ELSE -((-a) \div c)

\* a * b / c without leaving 32 bits for |a| large, 0 <= b, (c-1)*b < 2^31
MulDiv(a, b, c) ==
    IF a >= 0 THEN (a \div c) * b + ((a % c) * b) \div c
    ELSE -(((-a) \div c) * b + (((-a) % c) * b) \div c)

RECURSIVE ISqrtIter(_, _)
ISqrtIter(n, x) ==
    LET y == (x + n \div x) \div 2
    IN  IF y >= x THEN x ELSE ISqrtIter(n, y)

\* floor(sqrt(n))
ISqrt(n) == IF n <= 0 THEN 0 ELSE ISqrtIter(n, n)

\* Math.hypot(a, b)
Hypot(a, b) == ISqrt(a * a + b * b)

\* const clamp = (v, min, max) => Math.min(max, Math.max(min, v))
clamp(v, lo, hi) == Min(hi, Max(lo, v))

\* const lerp = (a, b, t) => a + (b - a) * clamp(t, 0, 1); t in 1/1000
lerp(a, b, t) == a + Trunc((b - a) * clamp(t, 0, 1000), 1000)

\* Math.sin on 1/1000 rad, result in 1/1000 (Bhaskara's rational form)
SinHalf(x) ==
    LET a == x * (3142 - x)
    IN  (16 * a) \div ((49361000 - 4 * a) \div 1000)

Sin(x) ==
    LET r == x % 6284
    IN  IF r <= 3142 THEN SinHalf(r) ELSE -SinHalf(r - 3142)

Cos(x) == Sin(x + 1571)

\* Math.pow(x, 2.1) for x in [0, 1] (1/1000), interpolated between tenths
Pow21Table == <<0, 8, 34, 80, 146, 233, 342, 473, 626, 802, 1000>>

Pow21(x) ==
    LET c == clamp(x, 0, 1000)
        i == Min(9, c \div 100)
        a == Pow21Table[i + 1]
        b == Pow21Table[i + 2]
    IN  a + ((b - a) * (c - 100 * i)) \div 100

Vec(x, y, z) == [x |-> x, y |-> y, z |-> z]
Zero3 == Vec(0, 0, 0)

\* JavaScript numbers that may be non-finite (the frame timestamp, game.last)
Num(v) == [k |-> "num", v |-> v]
NaN == [k |-> "nan", v |-> 0]


---------------------------------------------------------------------------
(* src/app.js: configuration, maps, perks *)

CFG == [
    dtMax          |-> 50,      \* 0.05 s
    accel          |-> 520,     \* 52 u/s^2
    brake          |-> 1200,
    drag           |-> 100,     \* 0.10 /s
    coastDrag      |-> 220,
    lateralGrip    |-> 8600,
    driftGrip      |-> 3200,
    steer          |-> 1950,
    steerDrift     |-> 2650,
    driftGain      |-> 34,      \* 34 points per second
    boostPower     |-> 1550,
    boostDrain     |-> 28,
    boostImpulse   |-> 550,
    boostGain      |-> 1000,
    pickupInterval |-> 7000,
    rivalInterval  |-> 8000,
    rivalMax       |-> 3,
    pickupMax      |-> 6,
    pickupRange    |-> 110,
    arenaBounce    |-> 450,
    gravity        |-> 260,
    rampLaunchScale |-> 900,
    steerRefSpeed  |-> 1400,
    fxRefSpeed     |-> 1700,
    rivalAccel     |-> 850,
    rivalDrag      |-> 160,
    rivalMaxFactor |-> 920 ]

Ramp(x, z, w, l, h, yaw) == [x |-> x, z |-> z, w |-> w, l |-> l, h |-> h, yaw |-> yaw]

\* MAPS[0] 'crater' and MAPS[2] 'switch' (size and ramps; hazards and boost
\* rings are visual only in this variant)
MAPS == <<
    [id |-> "crater", size |-> 4200,
     ramps |-> << Ramp(1200, 400, 180, 420, 70, 400),
                  Ramp(-2200, -400, 160, 360, 60, -900) >>],
    [id |-> "switch", size |-> 3600,
     ramps |-> << Ramp(-100, 1600, 160, 380, 60, 3142) >>] >>

defaultMods == [grip |-> 1000, steer |-> 1000, boostGain |-> 1000,
                boostDrain |-> 1000, pickRange |-> 1000]

\* ids of PERKS, and an id another variant stored under the shared key
PerkIds == {"grip", "boost", "magnet", "steer"}
StoredPerks == {"none", "grip", "boost", "magnet", "steer", "cool"}

\* PERKS[..].apply(g)
PerkApply(m, id) ==
    CASE id = "grip"   -> [m EXCEPT !.grip = (@ * 1140) \div 1000]
      [] id = "boost"  -> [m EXCEPT !.boostGain = (@ * 1200) \div 1000,
                                    !.boostDrain = (@ * 900) \div 1000]
      [] id = "magnet" -> [m EXCEPT !.pickRange = (@ * 1400) \div 1000]
      [] id = "steer"  -> [m EXCEPT !.steer = (@ * 1120) \div 1000]
      [] OTHER         -> m

applyPerkTwice(g, perk) ==
    IF perk \in PerkIds THEN [g EXCEPT !.mod = PerkApply(PerkApply(g.mod, perk), perk)] ELSE g

\* applyPerk(perk): an unknown id has no apply function; the call throws and
\* the throw is swallowed
applyPerk(g, perk) ==
    IF perk = "none" THEN g
    ELSE IF perk \in PerkIds THEN [g EXCEPT !.mod = PerkApply(g.mod, perk)]
    ELSE g

\* game.settings.speedScale (loadSettings default)
speedScale == 1000

addComboUnclamped(g, v) == [g EXCEPT !.combo = g.combo + v, !.comboTimer = 3000]

\* function addCombo(v) { game.combo = clamp(game.combo + v, 1, 9); game.comboTimer = 3; }
addCombo(g, v) == [g EXCEPT !.combo = clamp(g.combo + v, 10000, 90000),
                            !.comboTimer = 3000]

\* v + f * a * dt, f a unit vector (1/1000), a per second, dt in ms
AddScaledDt(v, f, a, dt) ==
    Vec(v.x + Trunc(f.x * a * dt, 1000000), v.y + Trunc(f.y * a * dt, 1000000),
        v.z + Trunc(f.z * a * dt, 1000000))

\* v + f * a, f a unit vector (1/1000)
AddScaled(v, f, a) ==
    Vec(v.x + Trunc(f.x * a, 1000), v.y + Trunc(f.y * a, 1000),
        v.z + Trunc(f.z * a, 1000))

Dot(a, b) == a.x * b.x + a.y * b.y + a.z * b.z

clampToArenaUndamped(map, pos, vel) ==
    LET d    == Hypot(pos.x, pos.z)
        dirx == Trunc(pos.x * 1000, Max(1, d))
        dirz == Trunc(pos.z * 1000, Max(1, d))
        keep == (map.size * 995) \div 1000
        vn == vel.x * dirx + vel.z * dirz
        rx == vel.x - Trunc(2 * Trunc(vn, 1000) * dirx, 1000)
        rz == vel.z - Trunc(2 * Trunc(vn, 1000) * dirz, 1000)
    IN  IF d > map.size
        THEN [pos |-> Vec(Trunc(dirx * keep, 1000), pos.y, Trunc(dirz * keep, 1000)),
              vel |-> Vec(rx, vel.y, rz), bounced |-> TRUE]
        ELSE [pos |-> pos, vel |-> vel, bounced |-> FALSE]

clampToArenaNoReflect(map, pos, vel) ==
    LET d    == Hypot(pos.x, pos.z)
        dirx == Trunc(pos.x * 1000, Max(1, d))
        dirz == Trunc(pos.z * 1000, Max(1, d))
        keep == (map.size * 995) \div 1000
    IN  IF d > map.size
        THEN [pos |-> Vec(Trunc(dirx * keep, 1000), pos.y, Trunc(dirz * keep, 1000)),
              vel |-> Vec(Trunc(vel.x * CFG.arenaBounce, 1000), vel.y,
                          Trunc(vel.z * CFG.arenaBounce, 1000)),
              bounced |-> TRUE]
        ELSE [pos |-> pos, vel |-> vel, bounced |-> FALSE]

\* function clampToArena(map, pos, vel): the position and velocity it leaves
clampToArena(map, pos, vel) ==
    LET limit == map.size
        d  == Hypot(pos.x, pos.z)
        \* dir = pos * (1 / max(1e-6, d))
        dirx == Trunc(pos.x * 1000, Max(1, d))
        dirz == Trunc(pos.z * 1000, Max(1, d))
        keep == (limit * 995) \div 1000
        \* Vector3.reflect: v - 2 (v . n) n, then * arenaBounce
        vn == vel.x * dirx + vel.z * dirz
        rx == vel.x - Trunc(2 * Trunc(vn, 1000) * dirx, 1000)
        rz == vel.z - Trunc(2 * Trunc(vn, 1000) * dirz, 1000)
    IN  IF d > limit
        THEN [pos |-> Vec(Trunc(dirx * keep, 1000), pos.y, Trunc(dirz * keep, 1000)),
              vel |-> Vec(Trunc(rx * CFG.arenaBounce, 1000), vel.y,
                          Trunc(rz * CFG.arenaBounce, 1000)),
              bounced |-> TRUE]
        ELSE [pos |-> pos, vel |-> vel, bounced |-> FALSE]

\* one observed call of clampToArena that relocated its subject
Bounce(who, map, pos, vel, c) ==
    [who |-> who, limit |-> map.size, pos |-> pos, vel |-> vel,
     outPos |-> c.pos, outVel |-> c.vel]

\* function sampleGround(map, x, z): the highest ramp surface under (x, z);
\* ramp = 0 when the point is on the flat floor
RECURSIVE sampleGroundFrom(_, _, _, _, _)
sampleGroundFrom(ramps, i, x, z, best) ==
    IF i > Len(ramps) THEN best
    ELSE
      LET r  == ramps[i]
          c  == Cos(-r.yaw)
          s  == Sin(-r.yaw)
          dx == x - r.x
          dz == z - r.z
          lx == Trunc(dx * c - dz * s, 1000)
          lz == Trunc(dx * s + dz * c, 1000)
          out == 2 * Abs(lx) > r.w \/ 2 * lz < -r.l \/ 2 * lz > r.l
          t  == clamp(Trunc((2 * lz + r.l) * 1000, 2 * r.l), 0, 1000)
          y  == (t * r.h) \div 1000
          hit == [y |-> y, ramp |-> i, slope |-> (r.h * 1000) \div r.l,
                  dir |-> Vec(Sin(r.yaw), 0, Cos(r.yaw))]
      IN  sampleGroundFrom(ramps, i + 1, x, z,
                           IF ~out /\ y > best.y THEN hit ELSE best)

sampleGround(map, x, z) ==
    sampleGroundFrom(map.ramps, 1, x, z,
                     [y |-> 0, ramp |-> 0, slope |-> 0, dir |-> Vec(0, 0, 1000)])

---------------------------------------------------------------------------
(* src/app.js: one simulation step *)

Input(steer, accel, brake, drift, boost) ==
    [steer |-> steer, accel |-> accel, brake |-> brake, drift |-> drift, boost |-> boost]

\* function autoInput(dt), after game.autopilotTime += dt; the boost key is
\* Math.random() > 0.985
autoInput(t, rndBoost) ==
    Input(Trunc(Sin((t * 7) \div 10) * 800, 1000), TRUE, FALSE,
          Sin((t * 13) \div 10) > 650, rndBoost)

\* update(dt), lines 1040-1041: the heading and its right-hand normal
forwardOf(yaw) == Vec(Sin(yaw), 0, Cos(yaw))
rightOf(forward) == Vec(forward.z, 0, -forward.x)

\* update(dt), lines 1048-1051: the velocity after the throttle
throttled(g, dt, input, forward) ==
    LET accel01 == clamp((g.speed * 1000) \div Max(10, (CFG.fxRefSpeed * 25 * speedScale) \div 10000), 0, 1000)
        effAccel == (CFG.accel * (1000 - Pow21(accel01))) \div 1000
    IN  IF input.accel THEN AddScaledDt(g.vel, forward, effAccel, dt) ELSE g.vel

\* update(dt), line 1052: the velocity after the brake
braked(v, dt, input, forward) ==
    IF input.brake THEN AddScaledDt(v, forward, -CFG.brake, dt) ELSE v

\* update(dt), lines 1044, 1055-1057: the yaw rate after steering
steered(g, dt, input) ==
    LET speed01 == clamp((g.speed * 1000) \div Max(10, (CFG.steerRefSpeed * speedScale) \div 1000), 0, 1000)
        steerRate == ((((IF input.drift THEN CFG.steerDrift ELSE CFG.steer) * g.mod.steer) \div 1000)
                        * (550 + ((1000 - speed01) * 600) \div 1000)) \div 1000
    IN  lerp(g.yawVel, Trunc((-input.steer) * steerRate, 1000),
             dt * (IF input.drift THEN 6 ELSE 8))

\* update(dt), lines 1054, 1060-1070: lateral grip and drag on the velocity v
gripped(g, v, dt, input, forward, right) ==
    LET steerGrip == ((IF input.drift THEN CFG.driftGrip ELSE CFG.lateralGrip) * g.mod.grip) \div 1000
        fSpeed == Trunc(Dot(v, forward), 1000)
        side   == lerp(Trunc(Dot(v, right), 1000), 0, (dt * steerGrip) \div 1000)
        baseDrag == CFG.drag + (IF input.accel THEN 0 ELSE CFG.coastDrag)
        dragMul  == Max(0, 1000 - (baseDrag * dt) \div 1000)
    IN  Vec(Trunc((Trunc(forward.x * fSpeed, 1000) + Trunc(right.x * side, 1000)) * dragMul, 1000),
            v.y,
            Trunc((Trunc(forward.z * fSpeed, 1000) + Trunc(right.z * side, 1000)) * dragMul, 1000))

\* update(dt), lines 1036-1037, 1057-1058, 1071: the game object with the
\* new yaw rate, yaw, velocity and speed
turned(g, dt, yawVel, vel) ==
    [g EXCEPT !.runTime = @ + dt, !.lastDt = dt,
              !.yawVel = yawVel, !.yaw = g.yaw + Trunc(yawVel * dt, 1000),
              !.vel = vel, !.speed = Hypot(vel.x, vel.z)]

\* update(dt), lines 1036-1071: throttle, steering, grip and drag
updateVelocity(g, dt, input, forward) ==
    turned(g, dt, steered(g, dt, input),
           gripped(g, braked(throttled(g, dt, input, forward), dt, input, forward),
                   dt, input, forward, rightOf(forward)))

updateDriftResetOnPayout(g, dt, input, forward) ==
    IF input.drift THEN
        LET g1 == [g EXCEPT !.drift = clamp(g.drift + CFG.driftGain * dt, 0, 100000),
                            !.speed = (g.speed * 995) \div 1000,
                            !.drifting = TRUE]
        IN  IF g1.drift > 25000
            THEN [addCombo(g1, dt \div 2) EXCEPT !.score = @ + (3 * dt) \div 10]
            ELSE g1
    ELSE IF g.drifting /\ g.drift > 5000 THEN
        LET release01 == clamp(g.drift \div 100, 0, 1000)
            gain == (((g.drift * CFG.boostGain) \div 1000) * g.mod.boostGain) \div 1000
            g1 == [g EXCEPT !.boost = clamp(g.boost + gain, 0, 140000),
                            !.boostPulse = Max(g.boostPulse, 220 + (release01 * 550) \div 1000),
                            !.vel = AddScaled(g.vel, forward, (CFG.boostImpulse * (300 + release01)) \div 1000)]
            g2 == addCombo(g1, 3500 + release01 * 4)
        IN  [g2 EXCEPT !.score = @ + MulDiv(g2.combo, 7000 + 18 * release01, 10000),
                       !.drift = 0, !.drifting = FALSE]
    ELSE [g EXCEPT !.drifting = FALSE]

\* update(dt), lines 1075-1095: the drift meter and its release
updateDrift(g, dt, input, forward) ==
    IF input.drift THEN
        LET g1 == [g EXCEPT !.drift = clamp(g.drift + CFG.driftGain * dt, 0, 100000),
                            !.speed = (g.speed * 995) \div 1000,
                            !.drifting = TRUE]
        IN  IF g1.drift > 25000
            THEN [addCombo(g1, dt \div 2) EXCEPT !.score = @ + (3 * dt) \div 10]
            ELSE g1
    ELSE IF g.drifting THEN
        LET release01 == clamp(g.drift \div 100, 0, 1000)
            gain == (((g.drift * CFG.boostGain) \div 1000) * g.mod.boostGain) \div 1000
            g1 == [g EXCEPT !.boost = clamp(g.boost + gain, 0, 140000),
                            !.boostPulse = Max(g.boostPulse, 220 + (release01 * 550) \div 1000),
                            !.vel = AddScaled(g.vel, forward, (CFG.boostImpulse * (300 + release01)) \div 1000)]
            g2 == addCombo(g1, 3500 + release01 * 4)
            g3 == [g2 EXCEPT !.score = @ + MulDiv(g2.combo, 7000 + 18 * release01, 10000)]
            g4 == IF g.drift > 5000 THEN g3 ELSE g
        IN  [g4 EXCEPT !.drift = 0, !.drifting = FALSE]
    ELSE g

\* update(dt), lines 1097-1102: boost burn and the release pulse
updateBoost(g, dt, input, forward) ==
    LET g1 == IF input.boost /\ g.boost > 0
              THEN [g EXCEPT !.vel = AddScaledDt(g.vel, forward, CFG.boostPower, dt),
                             !.boost = clamp(g.boost - (CFG.boostDrain * dt * g.mod.boostDrain) \div 1000, 0, 140000)]
              ELSE g
    IN  IF g1.boostPulse > 0
        THEN [g1 EXCEPT !.vel = AddScaledDt(g1.vel, forward, CFG.boostImpulse, dt),
                        !.boostPulse = @ - dt]
        ELSE g1

\* update(dt), lines 1104-1107: the player at p after clampToArena returned c
moved(g, p, c) ==
    [g |-> [g EXCEPT !.pos = c.pos, !.vel = c.vel],
     seen |-> IF c.bounced THEN <<Bounce("player", MAPS[g.map], p, g.vel, c)>> ELSE <<>>]

\* update(dt), lines 1104-1107: horizontal motion and the arena boundary
updateMove(g, dt) ==
    LET p == Vec(g.pos.x + Trunc(g.vel.x * dt, 1000), g.pos.y,
                 g.pos.z + Trunc(g.vel.z * dt, 1000))
    IN  moved(g, p, clampToArena(MAPS[g.map], p, g.vel))

\* update(dt), lines 1114-1118: combo decay, score, invulnerability
updateScore(g, dt, input) ==
    LET comboTimer == Max(0, g.comboTimer - dt)
        combo == IF comboTimer <= 0 THEN Max(10000, g.combo - 2 * dt) ELSE g.combo
        rate  == (g.speed * 6) \div 10 + (IF input.drift THEN 300 ELSE 0)
    IN  [g EXCEPT !.comboTimer = comboTimer, !.combo = combo,
                  !.score = @ + MulDiv(combo, (rate * dt) \div 1000, 10000),
                  !.invuln = Max(0, g.invuln - dt)]

\* update(dt), lines 1121-1137: ramps and jumps over the ground sample gr
landed(g, dt, gr) ==
    LET along == Trunc(Dot([g.vel EXCEPT !.y = 0], gr.dir), 1000)
        launch == (((Max(0, along) * gr.slope) \div 1000) * CFG.rampLaunchScale) \div 1000
        vy1 == IF g.onRamp /\ g.rampTakeoff > 0 THEN Max(g.vel.y, g.rampTakeoff) ELSE g.vel.y
        vy2 == vy1 - (CFG.gravity * dt) \div 1000
        py  == g.pos.y + Trunc(vy2 * dt, 1000)
    IN  IF gr.ramp # 0
        THEN [g EXCEPT !.onRamp = TRUE, !.grounded = TRUE, !.pos.y = gr.y, !.vel.y = 0,
                       !.rampTakeoff = Max(g.rampTakeoff, launch)]
        ELSE IF py <= 0
        THEN [g EXCEPT !.onRamp = FALSE, !.rampTakeoff = 0, !.pos.y = 0, !.vel.y = 0,
                       !.grounded = TRUE]
        ELSE [g EXCEPT !.onRamp = FALSE, !.rampTakeoff = 0, !.pos.y = py, !.vel.y = vy2,
                       !.grounded = FALSE]

\* update(dt), lines 1121-1137: ramps and jumps
updateVertical(g, dt) == landed(g, dt, sampleGround(MAPS[g.map], g.pos.x, g.pos.z))

\* update(dt), lines 1114-1137 on the outcome m of the horizontal move
updateAfterMove(m, dt, input) ==
    [g |-> updateVertical(updateScore(m.g, dt, input), dt), seen |-> m.seen]

\* update(dt), lines 1040-1107 with the heading of the start of the tick
updateDrive(g, dt, input, forward) ==
    updateMove(updateBoost(updateDrift(updateVelocity(g, dt, input, forward),
                                       dt, input, forward),
                           dt, input, forward),
               dt)

\* update(dt) up to the pickups: the player's own step
updatePlayer(g, dt, input) ==
    updateAfterMove(updateDrive(g, dt, input, forwardOf(g.yaw)), dt, input)

---------------------------------------------------------------------------
(* src/app.js: pickups and rivals.  W = [g, rivals, pickups, bounces, taken,  *)
(* nears, intent] is the game object with the two active lists, the observed *)
(* relocations, the meshes of the pickups collected, the near-miss bonuses   *)
(* and the intent read; rnd holds the frame's random draws.                  *)

World(g, rivals, pickups, seen, near, read) ==
    [g |-> g, rivals |-> rivals, pickups |-> pickups, bounces |-> seen, taken |-> {},
     nears |-> near, intent |-> read]

\* no near-miss bonus yet: grants lists the bonuses of the latest update, last
\* the run time at which the rival of each list index earned its latest one
NoNears == [grants |-> <<>>, last |-> [i \in 1..CFG.rivalMax |-> -1],
            hits |-> <<>>, lastHit |-> -1]

\* the observation after a bonus for the rival of JS index i - 1, d2 the
\* squared distance at which it was granted
Granted(near, i, at, d2) ==
    [near EXCEPT
       !.grants = Append(near.grants, [rival |-> i, at |-> at, d2 |-> d2, prev |-> near.last[i]]),
       !.last = [near.last EXCEPT ![i] = at]]

\* the observation after the contact with the rival of JS index i - 1
\* respawned the player: hits lists the respawns of the latest update, lastHit
\* is the run time of the latest respawn of the run
Struck(near, i, at) ==
    [near EXCEPT !.hits = Append(near.hits, [rival |-> i, at |-> at, prev |-> near.lastHit]),
                 !.lastHit = at]

\* initWorld(), lines 668-671: pickupPool holds 16 meshes
PickupPool == 1..16

\* pickupPool.find(m => !m.visible): the first mesh of the pool that no
\* active pickup shows (0: none)
freeMesh(pickups) ==
    LET shown == {pickups[i].mesh : i \in 1..Len(pickups)}
    IN  IF PickupPool \subseteq shown THEN 0
        ELSE CHOOSE m \in PickupPool \ shown : \A k \in PickupPool \ shown : m <= k

RemoveAt(s, i) == SubSeq(s, 1, i - 1) \o SubSeq(s, i + 1, Len(s))

Dist2(a, b) == (a.x - b.x) * (a.x - b.x) + (a.y - b.y) * (a.y - b.y) + (a.z - b.z) * (a.z - b.z)

\* function spawnPickup(): a coin at the drawn position
spawnPickup(pickups, pos) ==
    IF freeMesh(pickups) = 0 THEN pickups
    ELSE Append(pickups, [pos |-> pos, type |-> "coin", mesh |-> freeMesh(pickups)])

\* function collectPickup(p)
collectPickup(g, p) ==
    IF p.type = "coin"
    THEN addCombo([g EXCEPT !.score = @ + MulDiv(g.combo, 18000, 10000)], 5000)
    ELSE g

\* updatePickups(dt), the loop body for the pickup at JS index i - 1,
\* walking from the last pickup down to the first
RECURSIVE pickupLoop(_, _)
pickupLoop(W, i) ==
    IF i < 1 THEN W
    ELSE
      LET g == W.g
          p == W.pickups[i]
          pos == [p.pos EXCEPT !.y = 8 + Trunc(Sin((g.runTime * 4) + 1000 * (i - 1)) * 2, 1000)]
          dist2 == Dist2(pos, g.pos)
          pullRange == (CFG.pickupRange * g.mod.pickRange) \div 1000
          pulled == Vec(pos.x + Trunc((g.pos.x - pos.x) * 5, 100),
                        pos.y + Trunc((g.pos.y - pos.y) * 5, 100),
                        pos.z + Trunc((g.pos.z - pos.z) * 5, 100))
      IN  IF dist2 < pullRange * pullRange /\ dist2 < 900
          THEN pickupLoop([W EXCEPT !.g = collectPickup(g, p),
                                    !.taken = @ \cup {p.mesh},
                                    !.pickups = RemoveAt(W.pickups, i)], i - 1)
          ELSE IF dist2 < pullRange * pullRange
          THEN pickupLoop([W EXCEPT !.pickups[i].pos = pulled], i - 1)
          ELSE pickupLoop([W EXCEPT !.pickups[i].pos = pos], i - 1)

updatePickupsUncapped(W, dt, rnd) ==
    LET timer == W.g.pickupTimer - dt
        spawn == timer <= 0
        W1 == [W EXCEPT !.g.pickupTimer = IF spawn THEN CFG.pickupInterval ELSE timer,
                        !.pickups = IF spawn THEN spawnPickup(W.pickups, rnd.pickup) ELSE @]
    IN  pickupLoop(W1, Len(W1.pickups))

\* function updatePickups(dt)
updatePickups(W, dt, rnd) ==
    LET timer == W.g.pickupTimer - dt
        spawn == timer <= 0 /\ Len(W.pickups) < CFG.pickupMax
        W1 == [W EXCEPT !.g.pickupTimer = IF spawn THEN CFG.pickupInterval ELSE timer,
                        !.pickups = IF spawn THEN spawnPickup(W.pickups, rnd.pickup) ELSE @]
    IN  pickupLoop(W1, Len(W1.pickups))

\* function spawnRival(): a rival at rest at the drawn place, of the drawn type
spawnRival(rivals, draw) ==
    Append(rivals, [pos |-> draw.pos, vel |-> Zero3, speed |-> 0, type |-> draw.type,
                    nearCd |-> 0, hitCd |-> 0])

\* function respawnPlayer(): the best of 18 random points, a random heading
respawnPlayer(g, draw) ==
    addCombo([g EXCEPT !.pos = Vec(draw.pos.x, 0, draw.pos.z), !.vel = Zero3,
                       !.yaw = draw.yaw, !.yawVel = 0, !.invuln = 1250], -10000)

\* Vector3.normalize on a horizontal vector, result in 1/1000
Normalize(x, z) ==
    LET len == Hypot(x, z)
    IN  IF len = 0 THEN Vec(0, 0, 0)
        ELSE Vec(Trunc(x * 1000, len), 0, Trunc(z * 1000, len))

\* Vector3.setLength on a horizontal velocity
SetLength(v, top) ==
    LET len == Hypot(v.x, v.z)
    IN  IF len = 0 THEN v
        ELSE Vec(Trunc(v.x * top, len), v.y, Trunc(v.z * top, len))

\* updateRivals(dt), lines 1345-1348: the direction from the rival to the player
rivalDir(g, r, i) ==
    IF g.pos.x = r.pos.x /\ g.pos.z = r.pos.z
    THEN Vec(Cos(1000 * (i - 1)), 0, Sin(1000 * (i - 1)))
    ELSE Normalize(g.pos.x - r.pos.x, g.pos.z - r.pos.z)

\* updateRivals(dt), lines 1349-1353: the direction the rival steers along
rivalAim(g, r, i, dir) ==
    LET laneOffset ==
            CASE r.type = "blocker" -> Trunc(Sin((g.runTime * 14) \div 10 + 1000 * (i - 1)) * 450, 1000)
              [] r.type = "hunter"  -> Trunc(Sin((g.runTime * 26) \div 10 + 1000 * (i - 1)) * 250, 1000)
              [] OTHER -> 0
    IN  Normalize(dir.x + Trunc(dir.z * laneOffset, 1000),
                  dir.z + Trunc((-dir.x) * laneOffset, 1000))

\* updateRivals(dt), lines 1354-1355: acceleration along the aim, then drag
rivalPushed(r, aim, dt, jitter) ==
    LET acc == (CFG.rivalAccel * (850 + (jitter * 300) \div 1000)) \div 1000
        mul == Max(0, 1000 - (CFG.rivalDrag * dt) \div 1000)
    IN  Vec(Trunc((r.vel.x + Trunc(aim.x * acc * dt, 1000000)) * mul, 1000),
            r.vel.y + Trunc(aim.y * acc * dt, 1000000),
            Trunc((r.vel.z + Trunc(aim.z * acc * dt, 1000000)) * mul, 1000))

\* updateRivals(dt), lines 1341, 1356: the speed cap that follows the player
rivalCapped(g, v) ==
    IF Hypot(v.x, v.z) > Max(650, (g.speed * 78) \div 100 + 350)
    THEN SetLength(v, Max(650, (g.speed * 78) \div 100 + 350))
    ELSE v

\* updateRivals(dt), lines 1344, 1357-1364: the rival at p after clampToArena
\* returned c
rivalPlaced(g, r, dt, v, p, c) ==
    [r |-> [r EXCEPT !.hitCd = Max(0, r.hitCd - dt), !.speed = Hypot(v.x, v.z),
                     !.pos = c.pos, !.vel = c.vel, !.nearCd = Max(0, r.nearCd - dt)],
     seen |-> IF c.bounced THEN <<Bounce("rival", MAPS[g.map], p, v, c)>> ELSE <<>>]

\* updateRivals(dt), lines 1358-1359: the move with velocity v
rivalAdvance(g, r, dt, v) ==
    LET p == Vec(r.pos.x + Trunc(v.x * dt, 1000), r.pos.y, r.pos.z + Trunc(v.z * dt, 1000))
    IN  rivalPlaced(g, r, dt, v, p, clampToArena(MAPS[g.map], p, v))

\* updateRivals(dt), lines 1343-1364: the chase step of one rival
rivalMove(g, r, i, dt, jitter) ==
    rivalAdvance(g, r, dt,
                 rivalCapped(g, rivalPushed(r, rivalAim(g, r, i, rivalDir(g, r, i)), dt, jitter)))

\* near miss and contact with a near-miss cooldown of half a second
rivalContactShortCooldown(W, i, m, rnd) ==
    LET d2 == (W.g.pos.x - m.r.pos.x) * (W.g.pos.x - m.r.pos.x)
                + (W.g.pos.z - m.r.pos.z) * (W.g.pos.z - m.r.pos.z)
        near == d2 > 900 /\ d2 < 6400 /\ m.r.nearCd <= 0
        \* dz < 2.85
        hit == 4 * d2 < 3249 /\ m.r.hitCd <= 0 /\ W.g.invuln <= 0 /\ W.g.pos.y < 12
        g1 == IF near THEN [addCombo(W.g, 1200) EXCEPT !.score = @ + 1800] ELSE W.g
        r2 == IF near THEN [m.r EXCEPT !.nearCd = 500] ELSE m.r
        r3 == IF hit THEN [r2 EXCEPT !.vel = Vec(Trunc(m.r.vel.x * 6, 10), Trunc(m.r.vel.y * 6, 10),
                                                 Trunc(m.r.vel.z * 6, 10)),
                                     !.hitCd = 600]
              ELSE r2
    IN  [W EXCEPT !.g = IF hit THEN respawnPlayer(g1, rnd.respawn) ELSE g1,
                  !.rivals[i] = r3, !.bounces = @ \o m.seen,
                  !.nears = IF hit
                            THEN Struck(IF near THEN Granted(@, i, W.g.runTime, d2) ELSE @,
                                        i, W.g.runTime)
                            ELSE IF near THEN Granted(@, i, W.g.runTime, d2) ELSE @]

\* near miss and contact without the test of game.invuln
rivalContactNoInvuln(W, i, m, rnd) ==
    LET d2 == (W.g.pos.x - m.r.pos.x) * (W.g.pos.x - m.r.pos.x)
                + (W.g.pos.z - m.r.pos.z) * (W.g.pos.z - m.r.pos.z)
        near == d2 > 900 /\ d2 < 6400 /\ m.r.nearCd <= 0
        \* dz < 2.85
        hit == 4 * d2 < 3249 /\ m.r.hitCd <= 0 /\ W.g.pos.y < 12
        g1 == IF near THEN [addCombo(W.g, 1200) EXCEPT !.score = @ + 1800] ELSE W.g
        r2 == IF near THEN [m.r EXCEPT !.nearCd = 1000] ELSE m.r
        r3 == IF hit THEN [r2 EXCEPT !.vel = Vec(Trunc(m.r.vel.x * 6, 10), Trunc(m.r.vel.y * 6, 10),
                                                 Trunc(m.r.vel.z * 6, 10)),
                                     !.hitCd = 600]
              ELSE r2
    IN  [W EXCEPT !.g = IF hit THEN respawnPlayer(g1, rnd.respawn) ELSE g1,
                  !.rivals[i] = r3, !.bounces = @ \o m.seen,
                  !.nears = IF hit
                            THEN Struck(IF near THEN Granted(@, i, W.g.runTime, d2) ELSE @,
                                        i, W.g.runTime)
                            ELSE IF near THEN Granted(@, i, W.g.runTime, d2) ELSE @]

\* updateRivals(dt), lines 1365-1375: near miss and contact of the moved
\* rival m.r
rivalContact(W, i, m, rnd) ==
    LET d2 == (W.g.pos.x - m.r.pos.x) * (W.g.pos.x - m.r.pos.x)
                + (W.g.pos.z - m.r.pos.z) * (W.g.pos.z - m.r.pos.z)
        near == d2 > 900 /\ d2 < 6400 /\ m.r.nearCd <= 0
        \* dz < 2.85
        hit == 4 * d2 < 3249 /\ m.r.hitCd <= 0 /\ W.g.invuln <= 0 /\ W.g.pos.y < 12
        g1 == IF near THEN [addCombo(W.g, 1200) EXCEPT !.score = @ + 1800] ELSE W.g
        r2 == IF near THEN [m.r EXCEPT !.nearCd = 1000] ELSE m.r
        r3 == IF hit THEN [r2 EXCEPT !.vel = Vec(Trunc(m.r.vel.x * 6, 10), Trunc(m.r.vel.y * 6, 10),
                                                 Trunc(m.r.vel.z * 6, 10)),
                                     !.hitCd = 600]
              ELSE r2
    IN  [W EXCEPT !.g = IF hit THEN respawnPlayer(g1, rnd.respawn) ELSE g1,
                  !.rivals[i] = r3, !.bounces = @ \o m.seen,
                  !.nears = IF hit
                            THEN Struck(IF near THEN Granted(@, i, W.g.runTime, d2) ELSE @,
                                        i, W.g.runTime)
                            ELSE IF near THEN Granted(@, i, W.g.runTime, d2) ELSE @]

\* updateRivals(dt), the loop body for the rival at JS index i - 1
RECURSIVE rivalLoop(_, _, _, _)
rivalLoop(W, i, dt, rnd) ==
    IF i < 1 THEN W
    ELSE rivalLoop(rivalContact(W, i, rivalMove(W.g, W.rivals[i], i, dt, rnd.jitter[i]), rnd),
                   i - 1, dt, rnd)

\* function updateRivals(dt)
updateRivals(W, dt, rnd) ==
    LET timer == W.g.rivalTimer - dt
        spawn == timer <= 0 /\ Len(W.rivals) < CFG.rivalMax
        W1 == [W EXCEPT !.g.rivalTimer = IF spawn THEN CFG.rivalInterval ELSE timer,
                        !.rivals = IF spawn THEN spawnRival(W.rivals, rnd.rival) ELSE @]
    IN  rivalLoop(W1, Len(W1.rivals), dt, rnd)

\* update(dt), lines 1036-1137: the player's step stored in the world
withPlayer(W, p) ==
    [W EXCEPT !.g = p.g, !.bounces = p.seen, !.nears.grants = <<>>, !.nears.hits = <<>>]

\* function update(dt)
update(W, dt, keys, rnd) ==
    LET attract == W.g.state = "attract"
        g0 == IF attract THEN [W.g EXCEPT !.autopilotTime = @ + dt] ELSE W.g
        input == IF attract THEN autoInput(W.g.autopilotTime + dt, rnd.boost) ELSE keys
    IN  updateRivals(updatePickups(withPlayer([W EXCEPT !.intent = input],
                                              updatePlayer(g0, dt, input)), dt, rnd),
                     dt, rnd)

---------------------------------------------------------------------------
(* src/app.js: game flow and the frame loop *)

\* const game = { ... } with game.perk = loadPerk() and, after boot(),
\* selectMap(game.mapIndex)
bootGame(perk) ==
    [state |-> "menu", mode |-> "player", map |-> 1,
     pos |-> Zero3, vel |-> Zero3, yaw |-> 0, yawVel |-> 0, speed |-> 0,
     drift |-> 0, boost |-> 0, boostPulse |-> 0, heat |-> 0,
     combo |-> 10000, comboTimer |-> 0, score |-> 0, runTime |-> 0,
     last |-> Num(0),
     pickupTimer |-> CFG.pickupInterval, rivalTimer |-> CFG.rivalInterval,
     drifting |-> FALSE, perk |-> perk, mod |-> defaultMods,
     autopilotTime |-> 0, lastDt |-> 0, invuln |-> 0,
     grounded |-> TRUE, onRamp |-> FALSE, rampTakeoff |-> 0]

\* buildArena(def), lines 980-984: both lists emptied, two rivals and one
\* pickup spawned
buildArena(W, draws) ==
    [W EXCEPT !.rivals = spawnRival(spawnRival(<<>>, draws.rival1), draws.rival2),
              !.pickups = spawnPickup(<<>>, draws.pickup),
              !.nears = NoNears]

\* function startRun(mode)
startRun(W, mode, draws) ==
    LET g1 == [W.g EXCEPT
                 !.mode = IF mode = "demo" THEN "attract" ELSE "player",
                 !.state = IF mode = "demo" THEN "attract" ELSE "playing",
                 !.pos = Zero3, !.vel = Zero3, !.yaw = 0, !.yawVel = 0,
                 !.speed = 0, !.drift = 0, !.boost = 0, !.boostPulse = 0, !.heat = 0,
                 !.combo = 10000, !.comboTimer = 0, !.score = 0, !.runTime = 0,
                 !.pickupTimer = CFG.pickupInterval, !.rivalTimer = CFG.rivalInterval,
                 !.autopilotTime = 0, !.lastDt = 0, !.invuln = 0,
                 !.grounded = TRUE, !.onRamp = FALSE, !.rampTakeoff = 0,
                 !.mod = defaultMods]
        g2 == applyPerk(g1, g1.perk)
    IN  buildArena([W EXCEPT !.g = g2], draws)

\* function pauseGame()
pauseGame(g) == IF g.state = "playing" THEN [g EXCEPT !.state = "paused"] ELSE g

\* function resumeGame()
resumeGame(g) == IF g.state = "paused" THEN [g EXCEPT !.state = "playing"] ELSE g

\* function gotoMenu()
gotoMenu(g) == [g EXCEPT !.state = "menu"]

\* function selectMap(idx)
selectMap(g, idx) == [g EXCEPT !.map = idx]

\* tick(now), line 991: dt = Math.min(CFG.dtMax, t - (game.last || t));
\* 0 and NaN are falsy, NaN propagates
frameDt(last, t) ==
    IF t.k = "nan" THEN NaN
    ELSE IF last.k = "nan" \/ last.v = 0 THEN Num(Min(CFG.dtMax, 0))
    ELSE Num(Min(CFG.dtMax, t.v - last.v))

tickNoSignCheck(W, now, keys, rnd) ==
    LET dt == frameDt(W.g.last, now)
        W1 == [W EXCEPT !.g.last = now]
    IN  IF dt.k = "nan" THEN W1
        ELSE IF W1.g.state \in {"playing", "attract"} THEN update(W1, dt.v, keys, rnd)
        ELSE W1

tickWhilePaused(W, now, keys, rnd) ==
    LET dt == frameDt(W.g.last, now)
        W1 == [W EXCEPT !.g.last = now]
    IN  IF dt.k = "nan" \/ dt.v <= 0 THEN W1
        ELSE IF W1.g.state \in {"playing", "attract", "paused"} THEN update(W1, dt.v, keys, rnd)
        ELSE W1

\* function tick(now)
tick(W, now, keys, rnd) ==
    LET dt == frameDt(W.g.last, now)
        W1 == [W EXCEPT !.g.last = now]
    IN  IF dt.k = "nan" \/ dt.v <= 0 THEN W1
        ELSE IF W1.g.state \in {"playing", "attract"} THEN update(W1, dt.v, keys, rnd)
        ELSE W1

---------------------------------------------------------------------------
(* src/unnamed/part_000: the spline-track variant.  Track distances and      *)
(* speeds in 1/100 unit, lanes in 1/1000, drift, boost and heat in 1/1000    *)
(* point, combo in 1/10000, score in 1/100, times in ms.                     *)

SplineCFG == [
    dtMax            |-> 50,
    accel            |-> 150,
    brake            |-> 220,
    drag             |-> 34,
    coastDrag        |-> 16,
    steer            |-> 1900,
    steerDrift       |-> 2700,
    driftGain        |-> 32,
    boostGain        |-> 850,
    boostForce       |-> 560,
    boostDrain       |-> 36,
    boostImpulse     |-> 120,
    maxSpeed         |-> 34000,
    offroadPenalty   |-> 500,
    heatGainDrift    |-> 20,
    heatGainBoost    |-> 26,
    heatGainHazard   |-> 48,
    heatCool         |-> 18,
    overheatDuration |-> 2600,
    enemyInterval    |-> 6000,
    pickupInterval   |-> 7000,
    rivalLook        |-> 19000,
    rivalMax         |-> 6,
    pickupMax        |-> 5,
    pickupRange      |-> 12000 ]

TRACK_SAMPLES == 720

\* TRACKS[0] 'ember': lap count, point widths, hazard and boost ranges
\* (1/1000 of a lap), and the length curve.getLength() returns for its points
Ember == [
    id      |-> "ember",
    laps    |-> 2,
    length  |-> 129260,
    widths  |-> <<12000, 12000, 12000, 12000, 11000, 11000, 12000, 12000, 12000, 12000>>,
    hazards |-> << [from |-> 160, to |-> 230] >>,
    boosts  |-> << [from |-> 460, to |-> 520] >> ]

\* function defaultMods()
defaultModsSpline ==
    [coolRate |-> 1000, grip |-> 1000, boostGain |-> 1000, boostDrain |-> 1000,
     hazardResist |-> 1000, offroadResist |-> 0, pickRange |-> 1000, shield |-> FALSE]

\* PERKS[..].id
SplinePerkIds == {"cool", "grip", "boost", "shield", "magnet", "resist"}

\* function applyPerk(perk): game.mod after PERKS[..].apply(game)
applyPerkSpline(g, perk) ==
    CASE perk = "cool"   -> [g EXCEPT !.mod.coolRate = (@ * 1250) \div 1000]
      [] perk = "grip"   -> [g EXCEPT !.mod.grip = (@ * 1120) \div 1000,
                                      !.mod.offroadResist = @ + 150]
      [] perk = "boost"  -> [g EXCEPT !.mod.boostGain = (@ * 1200) \div 1000,
                                      !.mod.boostDrain = (@ * 900) \div 1000]
      [] perk = "shield" -> [g EXCEPT !.mod.shield = TRUE]
      [] perk = "magnet" -> [g EXCEPT !.mod.pickRange = (@ * 1400) \div 1000]
      [] perk = "resist" -> [g EXCEPT !.mod.hazardResist = (@ * 700) \div 1000]
      [] OTHER -> g

\* const wrap01 = u => ((u % 1) + 1) % 1, for u = r / 1000: the double it
\* returns lies above r / 1000 for the r of Wrap01Above, below it for the r of
\* Wrap01Below, and is r / 1000 itself for the other multiples of 1/40 (the
\* values a sample i / TRACK_SAMPLES can be equal to)
Wrap01Above == {50, 100, 175, 225, 300, 350, 425, 475, 600, 725, 850, 975}
Wrap01Below == {25, 75, 150, 200, 275, 325, 400, 450, 525, 650, 775, 900}

\* u >= wrap01(r) and u <= wrap01(r) for the sample u = i / TRACK_SAMPLES
atLeastWrapped(i, r) ==
    \/ i * 1000 > (r % 1000) * TRACK_SAMPLES
    \/ i * 1000 = (r % 1000) * TRACK_SAMPLES /\ (r % 1000) \notin Wrap01Above
atMostWrapped(i, r) ==
    \/ i * 1000 < (r % 1000) * TRACK_SAMPLES
    \/ i * 1000 = (r % 1000) * TRACK_SAMPLES /\ (r % 1000) \notin Wrap01Below

\* function rangeActive(list, u) for the sample u = i / TRACK_SAMPLES
rangeActive(list, i) ==
    \E k \in 1..Len(list) :
        IF list[k].from % 1000 <= list[k].to % 1000
        THEN atLeastWrapped(i, list[k].from) /\ atMostWrapped(i, list[k].to)
        ELSE atLeastWrapped(i, list[k].from) \/ atMostWrapped(i, list[k].to)

\* TRACKS[..]: the hazard and boost ranges of the six courses (1/1000 of a lap)
Range(from, to) == [from |-> from, to |-> to]
SplineRanges == <<
    [id |-> "ember",   hazards |-> <<Range(160, 230)>>, boosts |-> <<Range(460, 520)>>],
    [id |-> "sear",    hazards |-> <<Range(340, 420), Range(740, 800)>>,
                       boosts  |-> <<Range(120, 160), Range(580, 630)>>],
    [id |-> "ridge",   hazards |-> <<Range(500, 580)>>,
                       boosts  |-> <<Range(220, 280), Range(820, 860)>>],
    [id |-> "furnace", hazards |-> <<Range(80, 140), Range(460, 530), Range(860, 920)>>,
                       boosts  |-> <<Range(300, 340), Range(660, 700)>>],
    [id |-> "crest",   hazards |-> <<Range(600, 700)>>,
                       boosts  |-> <<Range(280, 340), Range(880, 930)>>],
    [id |-> "endless", hazards |-> <<Range(180, 220), Range(520, 560), Range(820, 860)>>,
                       boosts  |-> <<Range(300, 350), Range(640, 690)>>] >>

\* buildTrack(def), lines 553-562: the zone flags of the sample i of the
\* course def
sampleFlags(def, i) ==
    [track |-> def.id, i |-> i,
     hazard |-> rangeActive(def.hazards, i), boost |-> rangeActive(def.boosts, i)]

\* no sample built yet
NoSample == [track |-> "", i |-> -1, hazard |-> FALSE, boost |-> FALSE]

\* function widthAt(def, u) for the sample u = i / TRACK_SAMPLES
widthAt(def, i) ==
    LET n == Len(def.widths)
        k == ((i * n) \div TRACK_SAMPLES) % n
    IN  def.widths[k + 1]
          + Trunc((def.widths[((k + 1) % n) + 1] - def.widths[k + 1]) * ((i * n) % TRACK_SAMPLES),
                  TRACK_SAMPLES)

\* function wrapS(track, s)
wrapS(track, s) == s % track.length

\* function wrapDelta(a, b)
wrapDelta(track, a, b) ==
    IF 2 * (a - b) > track.length THEN a - b - track.length
    ELSE IF 2 * (a - b) < -track.length THEN a - b + track.length
    ELSE a - b

\* function sampleTrack(track, s): width and zone flags between the two
\* samples around s
sampleTrack(track, s) ==
    LET f == wrapS(track, s) * TRACK_SAMPLES
        i == f \div track.length
        j == (i + 1) % (TRACK_SAMPLES + 1)
    IN  [width  |-> lerp(widthAt(track, i), widthAt(track, j),
                         ((f % track.length) * 1000) \div track.length),
         hazard |-> rangeActive(track.hazards, i) \/ rangeActive(track.hazards, j),
         boost  |-> rangeActive(track.boosts, i) \/ rangeActive(track.boosts, j)]

\* function addCombo(v)
addComboSpline(g, v) == [g EXCEPT !.combo = clamp(g.combo + v, 10000, 90000),
                                  !.comboTimer = 3000]

\* function autoInput(dt), after game.autopilotTime += dt
autoInputSpline(t, rndBoost) ==
    Input(Trunc(Sin((t * 8) \div 10) * 800, 1000), TRUE, FALSE,
          Sin((t * 14) \div 10) > 650, rndBoost)

\* update(dt), lines 683-692: throttle, brake, coasting and drag
speedSpline(g, dt, input) ==
    LET s1 == clamp(g.speed + (IF input.accel THEN (SplineCFG.accel * dt) \div 10 ELSE 0)
                            - (IF input.brake THEN (SplineCFG.brake * dt) \div 10 ELSE 0)
                            - (IF ~input.accel /\ ~input.brake
                               THEN (SplineCFG.coastDrag * dt) \div 10 ELSE 0),
                      0, (SplineCFG.maxSpeed * 14) \div 10)
        \* CFG.drag * (0.2 + speed / (maxSpeed * 1.1)), in 1/100 unit per s^2
        drag == SplineCFG.drag * 20 + (s1 * SplineCFG.drag * 10) \div ((SplineCFG.maxSpeed * 11) \div 100)
    IN  [g EXCEPT !.runTime = @ + dt,
                  !.speed = clamp(s1 - (drag * dt) \div 1000, 0, (SplineCFG.maxSpeed * 14) \div 10)]

\* update(dt), lines 686, 694-696: steering across the lanes
steerSpline(g, dt, input) ==
    LET grip == ((IF g.overheat > 0 THEN 650 ELSE 1000) * g.mod.grip) \div 1000
        steerRate == ((((IF input.drift THEN SplineCFG.steerDrift ELSE SplineCFG.steer) * grip) \div 1000)
                        * (900 + (g.speed * 1000) \div SplineCFG.maxSpeed)) \div 1000
        laneVel == lerp(g.laneVel, Trunc(input.steer * steerRate, 1000),
                        dt * (IF input.drift THEN 8 ELSE 6))
    IN  [g EXCEPT !.laneVel = laneVel, !.lane = @ + Trunc(laneVel * dt, 1000)]

\* update(dt), lines 698-705: the road edge
edgeSpline(g, dt, sample) ==
    LET roadHalf == (sample.width * 46) \div 100
    IN  IF Abs(g.lane) > roadHalf
        THEN [g EXCEPT !.lane = IF g.lane > 0 THEN roadHalf ELSE -roadHalf,
                       !.speed = Trunc(@ * (1000 - ((1000 - SplineCFG.offroadPenalty + g.mod.offroadResist) * dt * 2) \div 1000), 1000),
                       !.heat = @ + (SplineCFG.heatGainDrift * dt) \div 2]
        ELSE g

\* update(dt), lines 707-721: the drift meter and its release
driftSpline(g, dt, input) ==
    IF input.drift
    THEN [g EXCEPT !.drift = clamp(@ + SplineCFG.driftGain * dt, 0, 100000),
                   !.speed = (@ * 995) \div 1000,
                   !.heat = @ + SplineCFG.heatGainDrift * dt,
                   !.drifting = TRUE]
    ELSE IF g.drifting
    THEN [g EXCEPT !.boost = IF g.drift > 5000
                             THEN clamp(@ + (((g.drift * SplineCFG.boostGain) \div 1000) * g.mod.boostGain) \div 1000, 0, 130000)
                             ELSE @,
                   !.boostPulse = IF g.drift > 5000 THEN 900 ELSE @,
                   !.drift = 0,
                   !.drifting = FALSE]
    ELSE g

\* update(dt), lines 723-727: boost burn
burnSpline(g, dt, input) ==
    IF input.boost /\ g.boost > 0
    THEN [g EXCEPT !.speed = Min(@ + (SplineCFG.boostForce * dt) \div 10, (SplineCFG.maxSpeed * 135) \div 100),
                   !.boost = clamp(@ - (SplineCFG.boostDrain * dt * g.mod.boostDrain) \div 1000, 0, 130000),
                   !.heat = @ + SplineCFG.heatGainBoost * dt]
    ELSE g

\* update(dt), line 728: the release pulse
pulseSpline(g, dt) ==
    IF g.boostPulse > 0
    THEN [g EXCEPT !.speed = @ + (SplineCFG.boostImpulse * dt) \div 10, !.boostPulse = @ - dt]
    ELSE g

\* update(dt), line 730: hazard zone
hazardSpline(g, dt, sample) ==
    IF sample.hazard
    THEN [g EXCEPT !.heat = @ + (SplineCFG.heatGainHazard * dt * g.mod.hazardResist) \div 1000]
    ELSE g

\* update(dt), line 731: boost zone
padSpline(g, dt, sample) ==
    IF sample.boost
    THEN [g EXCEPT !.boost = clamp(@ + 14 * dt, 0, 130000),
                   !.speed = Min(@ + (SplineCFG.boostForce * 25 * dt) \div 1000, (SplineCFG.maxSpeed * 125) \div 100)]
    ELSE g

\* applyHeat(dt) with the timer restarted whenever the heat is at 100
applyHeatSplineRestarting(g, dt) ==
    LET overheat == IF g.overheat > 0 THEN Max(0, g.overheat - dt) ELSE g.overheat
        heat == clamp(g.heat - (SplineCFG.heatCool * dt * g.mod.coolRate) \div 1000, 0, 100000)
    IN  [g EXCEPT !.heat = heat,
                  !.overheat = IF heat >= 100000
                               THEN SplineCFG.overheatDuration ELSE overheat]

\* function applyHeat(dt)
applyHeatSpline(g, dt) ==
    LET overheat == IF g.overheat > 0 THEN Max(0, g.overheat - dt) ELSE g.overheat
        heat == clamp(g.heat - (SplineCFG.heatCool * dt * g.mod.coolRate) \div 1000, 0, 100000)
    IN  [g EXCEPT !.heat = heat,
                  !.overheat = IF heat >= 100000 /\ overheat <= 0
                               THEN SplineCFG.overheatDuration ELSE overheat]

\* function endRun(reason), with recordScore()
endRunSpline(g) == [g EXCEPT !.state = "over", !.best = Max(g.best, g.score)]

\* function handleLap(prevS, currentS)
handleLapSpline(g, prevS) ==
    IF prevS > g.s /\ 4 * (prevS - g.s) > Ember.length /\ g.state = "playing"
    THEN IF g.lap + 1 > Ember.laps
         THEN endRunSpline([g EXCEPT !.lap = @ + 1, !.score = @ + 40000 * (g.lap + 1)])
         ELSE [g EXCEPT !.lap = @ + 1, !.score = @ + 40000 * (g.lap + 1)]
    ELSE g

\* update(dt), lines 735-737: the move along the track
advanceSpline(g, dt) ==
    handleLapSpline([g EXCEPT !.s = wrapS(Ember, g.s + (g.speed * dt) \div 1000)], g.s)

\* update(dt), lines 747-749: combo decay and score
scoreSpline(g, dt, input) ==
    LET comboTimer == Max(0, g.comboTimer - dt)
        combo == IF comboTimer <= 0 THEN Max(10000, g.combo - 2 * dt) ELSE g.combo
        rate  == (g.speed * 8) \div 100 + (IF input.drift THEN 300 ELSE 0)
    IN  [g EXCEPT !.comboTimer = comboTimer, !.combo = combo,
                  !.score = @ + MulDiv(combo, (rate * dt) \div 1000, 10000)]

\* update(dt), lines 698-731 with the track sample under the player
zonesSpline(g, dt, input, sample) ==
    padSpline(hazardSpline(pulseSpline(burnSpline(driftSpline(edgeSpline(g, dt, sample),
                                                              dt, input),
                                                  dt, input),
                                       dt),
                           dt, sample),
              dt, sample)

\* update(dt), lines 683-749: the player's own step
playerSpline(g, dt, input) ==
    scoreSpline(advanceSpline(applyHeatSpline(zonesSpline(steerSpline(speedSpline(g, dt, input),
                                                                      dt, input),
                                                          dt, input, sampleTrack(Ember, g.s)),
                                              dt),
                              dt),
                dt, input)

\* function spawnPickup(): drawn distance ahead, lane and type
spawnPickupSpline(g, pickups, draw) ==
    Append(pickups, [s |-> wrapS(Ember, g.s + 12000 + draw.ahead), lane |-> draw.lane,
                     type |-> draw.type])

\* function collectPickup(p)
collectPickupSpline(g, p) ==
    CASE p.type = "cool"   -> [g EXCEPT !.heat = Max(0, @ - 28000)]
      [] p.type = "cell"   -> [g EXCEPT !.boost = clamp(@ + 45000, 0, 130000)]
      [] p.type = "shield" -> [g EXCEPT !.mod.shield = TRUE]
      [] p.type = "coin"   -> addComboSpline([g EXCEPT !.score = @ + MulDiv(g.combo, 18000, 10000)], 5000)
      [] OTHER -> g

\* updatePickups(dt, playerPos), the loop body for the pickup at JS index i - 1
RECURSIVE pickupLoopSpline(_, _)
pickupLoopSpline(W, i) ==
    IF i < 1 THEN W
    ELSE IF /\ Abs(wrapDelta(Ember, W.pickups[i].s, W.g.s)) < (SplineCFG.pickupRange * W.g.mod.pickRange) \div 10000
            /\ Abs(W.pickups[i].lane - W.g.lane) < 1400
            /\ Abs(wrapDelta(Ember, W.pickups[i].s, W.g.s)) < 1000
            /\ Abs(W.pickups[i].lane - W.g.lane) < 900
    THEN pickupLoopSpline([W EXCEPT !.g = collectPickupSpline(W.g, W.pickups[i]),
                                    !.pickups = RemoveAt(W.pickups, i)], i - 1)
    ELSE pickupLoopSpline(W, i - 1)

\* updatePickups(dt, playerPos), lines 813-814: the spawn timer
pickupTimerSpline(W, dt, rnd) ==
    IF W.g.pickupTimer - dt <= 0 /\ Len(W.pickups) < SplineCFG.pickupMax
    THEN [W EXCEPT !.g.pickupTimer = SplineCFG.pickupInterval,
                   !.pickups = spawnPickupSpline(W.g, W.pickups, rnd.pickup)]
    ELSE [W EXCEPT !.g.pickupTimer = @ - dt]

\* function updatePickups(dt, playerPos)
updatePickupsSpline(W, dt, rnd) ==
    pickupLoopSpline(pickupTimerSpline(W, dt, rnd), Len(pickupTimerSpline(W, dt, rnd).pickups))

\* observation of the contact a rival is in: the consecutive ticks it has
\* lasted, the bumps applied during it, and whether a shield absorbed it
NoContact == [ticks |-> 0, bumps |-> 0, absorbed |-> FALSE]

\* function spawnRival(): drawn distance ahead, lane and type
spawnRivalSpline(g, rivals, draw) ==
    Append(rivals, [s |-> wrapS(Ember, g.s + SplineCFG.rivalLook + draw.ahead),
                    lane |-> draw.lane, speed |-> clamp((g.speed * 9) \div 10, 8000, 16000),
                    type |-> draw.type, contact |-> NoContact])

\* function bump()
bumpSpline(g) ==
    addComboSpline([g EXCEPT !.speed = (@ * 78) \div 100, !.heat = @ + 8000,
                             !.laneVel = Trunc(@ * 6, 10)], -5000)

\* updateRivals(dt, playerPos), lines 859-865: lane, speed and place of a rival
rivalMoveSpline(g, r, dt, wander) ==
    LET targetLane ==
            CASE r.type = "blocker" -> clamp(g.lane + Trunc(Sin(g.runTime * 2) * 600, 1000), -2600, 2600)
              [] r.type = "hunter"  -> g.lane
              [] OTHER -> clamp(Trunc((wander - 500) * 14, 10), -2600, 2600)
        targetSpeed == clamp((g.speed * (IF r.type = "hunter" THEN 105 ELSE 92)) \div 100,
                             8000, (SplineCFG.maxSpeed * 9) \div 10)
        speed == lerp(r.speed, targetSpeed, (dt * 22) \div 10)
    IN  [r EXCEPT !.lane = lerp(r.lane, targetLane,
                                IF r.type = "blocker" THEN dt * 5 ELSE (dt * 32) \div 10),
                  !.speed = speed,
                  !.s = wrapS(Ember, r.s + (speed * dt) \div 1000)]

\* updateRivals(dt, playerPos), lines 874-875: one more tick of the contact c,
\* absorbed by the shield or answered with bump()
touched(c, shield) ==
    [ticks |-> c.ticks + 1, bumps |-> IF shield THEN c.bumps ELSE c.bumps + 1,
     absorbed |-> c.absorbed \/ shield]

\* updateRivals(dt, playerPos), lines 871-878: contact with the moved rival r
rivalContactSpline(W, i, r) ==
    LET dz == Abs(wrapDelta(Ember, r.s, W.g.s))
        touch == dz < 1400 /\ Abs(r.lane - W.g.lane) < 1000
        g1 == IF ~touch THEN W.g
              ELSE IF W.g.mod.shield THEN [W.g EXCEPT !.mod.shield = FALSE]
              ELSE bumpSpline(W.g)
        r1 == IF touch
              THEN [r EXCEPT !.speed = (@ * 8) \div 10,
                             !.contact = touched(@, W.g.mod.shield)]
              ELSE [r EXCEPT !.contact = NoContact]
    IN  [W EXCEPT !.g = g1,
                  !.rivals = IF 10 * dz > 6 * Ember.length
                             THEN RemoveAt(W.rivals, i)
                             ELSE [W.rivals EXCEPT ![i] = r1]]

\* updateRivals(dt, playerPos), the loop body for the rival at JS index i - 1
RECURSIVE rivalLoopSpline(_, _, _, _)
rivalLoopSpline(W, i, dt, rnd) ==
    IF i < 1 THEN W
    ELSE rivalLoopSpline(rivalContactSpline(W, i, rivalMoveSpline(W.g, W.rivals[i], dt, rnd.wander)),
                         i - 1, dt, rnd)

\* updateRivals(dt, playerPos), lines 855-856: the spawn timer
rivalTimerSpline(W, dt, rnd) ==
    IF W.g.rivalTimer - dt <= 0 /\ Len(W.rivals) < SplineCFG.rivalMax
    THEN [W EXCEPT !.g.rivalTimer = SplineCFG.enemyInterval,
                   !.rivals = spawnRivalSpline(W.g, W.rivals, rnd.rival)]
    ELSE [W EXCEPT !.g.rivalTimer = @ - dt]

\* function updateRivals(dt, playerPos)
updateRivalsSpline(W, dt, rnd) ==
    rivalLoopSpline(rivalTimerSpline(W, dt, rnd), Len(rivalTimerSpline(W, dt, rnd).rivals), dt, rnd)

\* update(dt), line 682: the input of the tick
inputSpline(g, dt, keys, rnd) ==
    IF g.state = "attract" THEN autoInputSpline(g.autopilotTime + dt, rnd.boost) ELSE keys

\* update(dt), lines 751-752 for the player p stepped; cooled observes the
\* heat applyHeat left
othersSpline(W, p, dt, rnd) ==
    updateRivalsSpline(updatePickupsSpline([W EXCEPT !.g = p, !.cooled = p.heat], dt, rnd),
                       dt, rnd)

\* update(dt), lines 683-721: the player as the boost-burn step finds it
preBurnSpline(g, dt, input) ==
    driftSpline(edgeSpline(steerSpline(speedSpline(g, dt, input), dt, input),
                           dt, sampleTrack(Ember, g.s)),
                dt, input)

\* update(dt), lines 723-727: whether the burn step p meets fires, and the
\* speed before and after it
burnSeen(p, dt, input) ==
    [fired |-> input.boost /\ p.boost > 0, before |-> p.speed,
     after |-> burnSpline(p, dt, input).speed]

\* update(dt), lines 683-752 with the input of the tick; burn observes the
\* boost-burn step
stepSpline(W, dt, input, rnd) ==
    othersSpline([W EXCEPT !.burn = burnSeen(preBurnSpline(W.g, dt, input), dt, input)],
                 playerSpline(W.g, dt, input), dt, rnd)

\* function update(dt)
updateSpline(W, dt, keys, rnd) ==
    IF ~W.g.track THEN W
    ELSE stepSpline([W EXCEPT !.g.autopilotTime = IF W.g.state = "attract" THEN @ + dt ELSE @],
                    dt, inputSpline(W.g, dt, keys, rnd), rnd)

\* const game = { ... } after boot(): no track is built before the first run
bootSpline(perk) ==
    [state |-> "menu", mode |-> "player", track |-> FALSE,
     s |-> 0, lane |-> 0, laneVel |-> 0, speed |-> 0,
     drift |-> 0, boost |-> 0, boostPulse |-> 0, heat |-> 0, overheat |-> 0,
     combo |-> 10000, comboTimer |-> 0, score |-> 0, lap |-> 1, runTime |-> 0,
     last |-> Num(0), best |-> 0,
     pickupTimer |-> SplineCFG.pickupInterval, rivalTimer |-> SplineCFG.enemyInterval,
     drifting |-> FALSE, perk |-> perk, mod |-> defaultModsSpline, autopilotTime |-> 0]

\* function buildWorld(): both lists emptied, two rivals and one pickup spawned
buildWorldSpline(W, draws) ==
    [W EXCEPT !.g.track = TRUE,
              !.rivals = spawnRivalSpline(W.g, spawnRivalSpline(W.g, <<>>, draws.rival1), draws.rival2),
              !.pickups = spawnPickupSpline(W.g, <<>>, draws.pickup)]

\* startRun(mode), lines 516-521: the game object reset, the perk applied
resetSpline(g, mode) ==
    applyPerkSpline([g EXCEPT
                       !.mode = IF mode = "demo" THEN "attract" ELSE "player",
                       !.state = IF mode = "demo" THEN "attract" ELSE "playing",
                       !.s = 0, !.lane = 0, !.laneVel = 0, !.speed = 0, !.drift = 0,
                       !.boost = 0, !.boostPulse = 0, !.heat = 0, !.overheat = 0,
                       !.combo = 10000, !.comboTimer = 0, !.score = 0, !.lap = 1,
                       !.runTime = 0,
                       !.pickupTimer = SplineCFG.pickupInterval,
                       !.rivalTimer = SplineCFG.enemyInterval, !.autopilotTime = 0,
                       !.mod = defaultModsSpline],
                    g.perk)

\* function startRun(mode)
startRunSpline(W, mode, draws) ==
    buildWorldSpline([W EXCEPT !.g = resetSpline(W.g, mode)], draws)

\* tick(now), lines 645-646: dt = Math.min(CFG.dtMax, t - (game.last || t))
frameDtSpline(last, t) ==
    IF t.k = "nan" THEN NaN
    ELSE IF last.k = "nan" \/ last.v = 0 THEN Num(Min(SplineCFG.dtMax, 0))
    ELSE Num(Min(SplineCFG.dtMax, t.v - last.v))

\* function tick(now)
tickSpline(W, now, keys, rnd) ==
    IF frameDtSpline(W.g.last, now).k = "nan" \/ frameDtSpline(W.g.last, now).v <= 0
    THEN [W EXCEPT !.g.last = now]
    ELSE IF W.g.state \in {"playing", "attract"}
    THEN updateSpline([W EXCEPT !.g.last = now], frameDtSpline(W.g.last, now).v, keys, rnd)
    ELSE [W EXCEPT !.g.last = now]

---------------------------------------------------------------------------
(* src/unnamed/part_001, lines 9-621: the section-track variant.  Track      *)
(* distances and speeds in 1/100 unit, lanes in 1/1000, drift, boost and     *)
(* heat in 1/1000 point, combo in 1/10000, score in 1/100, times in ms.      *)

SectionCFG == [
    step           |-> 1400,
    accel          |-> 160,
    brake          |-> 220,
    maxSpeed       |-> 32000,
    offroad        |-> 700,
    steer          |-> 1900,
    driftGain      |-> 30,
    boostForce     |-> 540,
    boostDrain     |-> 36,
    heatGain       |-> 30,
    heatCool       |-> 24,
    heatLava       |-> 44,
    maxHeat        |-> 100000,
    comboWin       |-> 3000,
    pickupInterval |-> 7000,
    enemyInterval  |-> 6000,
    enemyLook      |-> 22000,
    dtClamp        |-> 50 ]

Sec(len, width, hazard, boost) == [len |-> len, width |-> width, hazard |-> hazard, boost |-> boost]

\* TRACKS[0] 'beginner' and TRACKS[1] 'canyon'
SectionTracks == <<
    [id |-> "beginner", laps |-> 2,
     sections |-> << Sec(24000, 18000, FALSE, FALSE), Sec(30000, 18000, FALSE, TRUE),
                     Sec(26000, 18000, FALSE, FALSE), Sec(14000, 18000, FALSE, FALSE) >>],
    [id |-> "canyon", laps |-> 3,
     sections |-> << Sec(20000, 15000, FALSE, FALSE), Sec(22000, 14000, TRUE, FALSE),
                     Sec(18000, 15000, FALSE, TRUE), Sec(16000, 15000, FALSE, FALSE) >>] >>

\* buildTrack(def), lines 210-221: the samples of the sections from the k-th on
RECURSIVE sectionPts(_, _)
sectionPts(sections, k) ==
    IF k > Len(sections) THEN <<>>
    ELSE [i \in 1..Max(1, sections[k].len \div SectionCFG.step) |->
              [width |-> sections[k].width, hazard |-> sections[k].hazard,
               boost |-> sections[k].boost]]
           \o sectionPts(sections, k + 1)

\* function buildTrack(def)
buildTrackSection(def) ==
    [pts |-> sectionPts(def.sections, 1),
     length |-> Len(sectionPts(def.sections, 1)) * SectionCFG.step,
     laps |-> def.laps]

\* function wrapS(s)
wrapSSection(track, s) ==
    IF 2 * s > track.length THEN s - track.length
    ELSE IF 2 * s < -track.length THEN s + track.length
    ELSE s

\* function sampleTrack(s)
sampleTrackSection(track, s) == track.pts[((s \div SectionCFG.step) % Len(track.pts)) + 1]

\* function addCombo(v)
addComboSection(g, v) == [g EXCEPT !.combo = clamp(g.combo + v, 10000, 90000),
                                   !.comboTimer = SectionCFG.comboWin]

\* function bump()
bumpSection(g) == [g EXCEPT !.combo = Max(10000, g.combo - 4000)]

\* function endRun(reason)
endRunSection(g) == [g EXCEPT !.state = "over"]

\* function autoInput()
autoInputSection(t, rndBoost) ==
    Input(Trunc(Sin((t * 7) \div 10) * 600, 1000), TRUE, FALSE,
          Sin((t * 12) \div 10) > 700, rndBoost)

\* update(dt), lines 364-372: throttle, brake, coasting and steering
driveSection(g, dt, input) ==
    LET speed == clamp(g.speed + (IF input.accel THEN (SectionCFG.accel * dt) \div 10 ELSE 0)
                               - (IF input.brake THEN (SectionCFG.brake * dt) \div 10 ELSE 0)
                               - (IF ~input.accel /\ ~input.brake
                                  THEN (SectionCFG.accel * 3 * dt) \div 100 ELSE 0),
                         0, SectionCFG.maxSpeed)
    IN  [g EXCEPT !.time = @ + dt,
                  !.speed = speed,
                  !.lane = clamp(@ + Trunc(input.steer * dt * (SectionCFG.steer + (speed * 3) \div 100), 1000000),
                                 -2600, 2600)]

\* update(dt), lines 374-375: the drift meter and its release
driftSection(g, dt, input) ==
    IF input.drift
    THEN [g EXCEPT !.drift = clamp(@ + SectionCFG.driftGain * dt, 0, 100000),
                   !.speed = (@ * 995) \div 1000,
                   !.heat = @ + (SectionCFG.heatGain * 35 * dt) \div 100]
    ELSE IF g.drift > 5000
    THEN [g EXCEPT !.boost = clamp(@ + (g.drift * 6) \div 10, 0, 100000), !.drift = 0]
    ELSE g

\* update(dt), line 376: boost burn; game.overheat is never defined
burnSection(g, dt, input) ==
    IF input.boost /\ g.boost > 0
    THEN [g EXCEPT !.speed = clamp(@ + (SectionCFG.boostForce * dt) \div 10, 0, (SectionCFG.maxSpeed * 125) \div 100),
                   !.boost = clamp(@ - SectionCFG.boostDrain * dt, 0, 100000),
                   !.heat = @ + SectionCFG.heatGain * dt]
    ELSE g

\* update(dt), line 378: the move along the track
moveSection(g, track, dt) == [g EXCEPT !.s = (@ + (g.speed * dt) \div 1000) % track.length]

\* update(dt), lines 388-390: road edge, lava and boost pad of the sample
zoneSection(g, dt, sample) ==
    [g EXCEPT
       !.speed = IF sample.boost
                 THEN clamp((IF 2 * Abs(g.lane) > sample.width THEN (@ * SectionCFG.offroad) \div 1000 ELSE @)
                              + (SectionCFG.boostForce * 3 * dt) \div 100,
                            0, (SectionCFG.maxSpeed * 125) \div 100)
                 ELSE IF 2 * Abs(g.lane) > sample.width THEN (@ * SectionCFG.offroad) \div 1000 ELSE @,
       !.heat = @ + (IF 2 * Abs(g.lane) > sample.width THEN (SectionCFG.heatGain * 2 * dt) \div 10 ELSE 0)
                  + (IF sample.hazard THEN SectionCFG.heatLava * dt ELSE 0),
       !.boost = IF sample.boost THEN clamp(@ + 15 * dt, 0, 100000) ELSE @]

\* function applyHeat(dt); game.overheat is never defined
applyHeatSection(g, dt) ==
    IF clamp(g.heat - SectionCFG.heatCool * dt, 0, SectionCFG.maxHeat) >= SectionCFG.maxHeat
    THEN endRunSection([g EXCEPT !.heat = SectionCFG.maxHeat])
    ELSE [g EXCEPT !.heat = clamp(g.heat - SectionCFG.heatCool * dt, 0, SectionCFG.maxHeat)]

\* update(dt), lines 393-394: score and combo decay
scoreSection(g, dt) ==
    [g EXCEPT !.score = @ + MulDiv(g.combo, ((g.speed \div 10) * dt) \div 1000, 10000),
              !.comboTimer = Max(0, @ - dt),
              !.combo = IF g.comboTimer - dt <= 0 THEN Max(10000, @ - 2500) ELSE @]

\* update(dt), lines 378-394 after the move
placedSection(g, track, dt) ==
    scoreSection(applyHeatSection(zoneSection(g, dt, sampleTrackSection(track, g.s)), dt), dt)

\* update(dt), lines 364-394: the player's own step
playerSection(g, track, dt, input) ==
    placedSection(moveSection(burnSection(driftSection(driveSection(g, dt, input), dt, input),
                                          dt, input),
                              track, dt),
                  track, dt)

\* updateEnemies(dt), lines 416-423: one rival's step
enemyMoveSection(g, track, e, dt, wander) ==
    [e EXCEPT
       !.lane = @ + Trunc(((IF e.type = "blocker" THEN clamp(g.lane + Trunc(wander * 600, 1000), -2400, 2400)
                            ELSE IF e.type = "hunter" THEN g.lane
                            ELSE clamp(Trunc(wander * 1400, 1000), -2400, 2400)) - @) * dt, 2000),
       !.speed = @ + Trunc((clamp((g.speed * 95) \div 100, 8000, (SectionCFG.maxSpeed * 9) \div 10) - @) * 4 * dt, 10000),
       !.s = (@ + ((e.speed + Trunc((clamp((g.speed * 95) \div 100, 8000, (SectionCFG.maxSpeed * 9) \div 10) - e.speed) * 4 * dt, 10000)) * dt) \div 1000)
                % track.length]

\* function updateEnemies(dt); rnd.vanish is the rival whose 1-in-1000 draw hides it
updateEnemiesSection(g, track, es, dt, rnd) ==
    IF rnd.vanish \in 1..Len(es)
    THEN RemoveAt([i \in 1..Len(es) |-> enemyMoveSection(g, track, es[i], dt, rnd.wander)], rnd.vanish)
    ELSE [i \in 1..Len(es) |-> enemyMoveSection(g, track, es[i], dt, rnd.wander)]

\* function spawnEnemy()
spawnEnemySection(g, track, es, draw) ==
    Append(es, [s |-> (g.s + 16000 + draw.ahead) % track.length,
                lane |-> draw.lane,
                speed |-> (g.speed * 8) \div 10 + 6000,
                type |-> draw.type])

\* function collectPickup(p)
collectPickupSection(g, p) ==
    IF p.type = "cool" THEN [g EXCEPT !.heat = Max(0, @ - 30000)]
    ELSE IF p.type = "cell" THEN [g EXCEPT !.boost = clamp(@ + 40000, 0, 100000)]
    ELSE IF p.type = "shield" THEN [g EXCEPT !.speed = @ + 1500, !.heat = Max(0, @ - 12000)]
    ELSE addComboSection([g EXCEPT !.score = @ + MulDiv(g.combo, 15000, 10000)], 4000)

\* updatePickups(dt), lines 451-456: the pickups from the i-th down
RECURSIVE pickupLoopSection(_, _, _)
pickupLoopSection(W, track, i) ==
    IF i < 1 THEN W
    ELSE IF /\ Abs(wrapSSection(track, W.pickups[i].s - W.g.s)) < 1000
            /\ Abs(W.pickups[i].lane - W.g.lane) < 600
    THEN pickupLoopSection([W EXCEPT !.g = collectPickupSection(W.g, W.pickups[i]),
                                     !.pickups = RemoveAt(W.pickups, i)], track, i - 1)
    ELSE pickupLoopSection(W, track, i - 1)

\* updatePickups(dt), lines 444-450: the spawn timer
pickupTimerSection(W, track, dt, draw) ==
    IF W.g.pickupTimer - dt <= 0 /\ Len(W.pickups) < 4
    THEN [W EXCEPT !.g.pickupTimer = SectionCFG.pickupInterval,
                   !.pickups = Append(@, [s |-> (W.g.s + 12000 + draw.ahead) % track.length,
                                          lane |-> draw.lane, type |-> draw.type])]
    ELSE [W EXCEPT !.g.pickupTimer = @ - dt]

\* function updatePickups(dt)
updatePickupsSection(W, track, dt, draw) ==
    pickupLoopSection(pickupTimerSection(W, track, dt, draw), track,
                      Len(pickupTimerSection(W, track, dt, draw).pickups))

\* update(dt), lines 403-407: the rivals from the i-th on that touch the player
RECURSIVE collideSection(_, _, _, _)
collideSection(g, track, es, i) ==
    IF i > Len(es) THEN g
    ELSE IF /\ Abs(wrapSSection(track, es[i].s - g.s)) < 1600
            /\ Abs(es[i].lane - g.lane) < 800
    THEN collideSection([bumpSection(g) EXCEPT !.speed = (@ * 7) \div 10, !.heat = @ + 10000],
                        track, es, i + 1)
    ELSE collideSection(g, track, es, i + 1)

\* the lap gate zone of handleLap()
nearSection(g, track) ==
    g.s <= SectionCFG.step * 2 \/ g.s >= track.length - SectionCFG.step * 2

\* function handleLap()
handleLapSection(g, track) ==
    IF nearSection(g, track)
    THEN IF ~g.lapGate /\ g.speed > 1000
         THEN IF g.state = "playing"
              THEN IF g.lap + 1 > track.laps
                   THEN endRunSection([g EXCEPT !.lap = @ + 1, !.score = @ + 30000 * (g.lap + 1),
                                                !.lapGate = TRUE])
                   ELSE [g EXCEPT !.lap = @ + 1, !.score = @ + 30000 * (g.lap + 1),
                                  !.lapGate = TRUE]
              ELSE [g EXCEPT !.lapGate = TRUE]
         ELSE g
    ELSE [g EXCEPT !.lapGate = FALSE]

\* update(dt), lines 403-409: contacts and the lap gate, on the moved rivals
contactSection(W, track) ==
    [W EXCEPT !.g = handleLapSection(collideSection(W.g, track, W.enemies, 1), track)]

\* update(dt), lines 397-409
othersSection(W, track, dt, rnd) ==
    contactSection(
        updatePickupsSection(
            [W EXCEPT !.enemies = updateEnemiesSection(W.g, track, W.enemies, dt, rnd)],
            track, dt, rnd.pickup),
        track)

\* update(dt), line 365: the input of the frame
inputSection(g, dt, keys, rnd) ==
    IF g.state = "attract" THEN autoInputSection(g.time + dt, rnd.boost) ELSE keys

\* the observation of an update that led from W0 to W1: odo is the distance
\* driven (line 378) since the run started or the lap counter last rose,
\* lapped the distance at which handleLap raised the counter in the update
odoSection(W0, W1, track) ==
    [W1 EXCEPT
       !.odo = IF W1.g.lap > W0.g.lap THEN 0
               ELSE W0.odo + ((W1.g.s - W0.g.s) % track.length),
       !.lapped = IF W1.g.lap > W0.g.lap
                  THEN <<W0.odo + ((W1.g.s - W0.g.s) % track.length)>>
                  ELSE <<>>]

\* update(dt) on the input read
stepSection(W, track, dt, input, rnd) ==
    odoSection(W, othersSection([W EXCEPT !.g = playerSection(W.g, track, dt, input),
                                          !.input = input],
                                track, dt, rnd),
               track)

\* function update(dt)
updateSection(W, dt, keys, rnd) ==
    stepSection(W, buildTrackSection(SectionTracks[W.g.track]), dt,
                inputSection(W.g, dt, keys, rnd), rnd)

\* const game = { ... }, then init(): selectMap(0)
bootSection(now) ==
    [state |-> "menu", mapIndex |-> 1, track |-> 0, s |-> 0, lane |-> 0, speed |-> 0,
     drift |-> 0, boost |-> 0, heat |-> 0, combo |-> 10000, comboTimer |-> 0, score |-> 0,
     lap |-> 1, time |-> 0, lapGate |-> FALSE, pickupTimer |-> SectionCFG.pickupInterval,
     last |-> now]

\* buildWorld(), lines 358: the three rivals of a new run
spawnThreeSection(g, track, draws) ==
    spawnEnemySection(g, track,
        spawnEnemySection(g, track, spawnEnemySection(g, track, <<>>, draws[1]), draws[2]),
        draws[3])

\* function buildWorld(), on the state set by startRun() or startAttract()
buildWorldSection(W, state, draws) ==
    [W EXCEPT
       !.g = [W.g EXCEPT !.state = state, !.track = W.g.mapIndex,
                         !.s = 0, !.lane = 0, !.speed = 0, !.drift = 0, !.boost = 0,
                         !.heat = 0, !.combo = 10000, !.comboTimer = 0, !.score = 0,
                         !.lap = 1, !.time = 0, !.lapGate = FALSE,
                         !.pickupTimer = SectionCFG.pickupInterval],
       !.enemies = spawnThreeSection([W.g EXCEPT !.s = 0, !.speed = 0],
                                     buildTrackSection(SectionTracks[W.g.mapIndex]), draws),
       !.pickups = <<>>, !.odo = 0, !.lapped = <<>>]

\* function startRun()
startRunSection(W, draws) == buildWorldSection(W, "playing", draws)

\* function startAttract()
startAttractSection(W, draws) == buildWorldSection(W, "attract", draws)

\* function raf(): t is performance.now(), in ms
rafSection(W, t, keys, rnd) ==
    IF W.g.state \in {"playing", "attract"}
    THEN updateSection([W EXCEPT !.g.last = t], Min(SectionCFG.dtClamp, t - W.g.last), keys, rnd)
    ELSE [W EXCEPT !.g.last = t]

---------------------------------------------------------------------------
(* src/unnamed/part_001, lines 3236-4679: the open arena with heat, shield   *)
(* and boost pads.  Units as for src/app.js.                                 *)

ArenaCFG == [
    dtMax          |-> 50,
    maxSpeed       |-> 920,
    accel          |-> 620,
    brake          |-> 1200,
    drag           |-> 320,
    coastDrag      |-> 550,
    lateralGrip    |-> 8600,
    driftGrip      |-> 3200,
    steer          |-> 1950,
    steerDrift     |-> 2650,
    driftGain      |-> 34,
    boostPower     |-> 1550,
    boostDrain     |-> 28,
    boostImpulse   |-> 550,
    boostGain      |-> 1000,
    maxHeat        |-> 100000,
    heatGainDrift  |-> 16,
    heatGainBoost  |-> 22,
    heatGainHazard |-> 40,
    heatCool       |-> 10,
    hazardSlow     |-> 750,
    heatCashBase   |-> 9000,
    heatCashPerPoint |-> 10,
    pickupInterval |-> 7000,
    rivalInterval  |-> 5000,
    rivalMax       |-> 6,
    pickupMax      |-> 6,
    pickupRange    |-> 110,
    arenaBounce    |-> 450,
    rivalAccel     |-> 850,
    rivalDrag      |-> 160,
    rivalMaxFactor |-> 920 ]

Disc(x, z, r) == [x |-> x, z |-> z, r |-> r]

\* MAPS[0] 'crater' and MAPS[2] 'switch'
ArenaMaps == <<
    [id |-> "crater", size |-> 4200,
     hazards |-> << Disc(0, 0, 900), Disc(-1600, 1300, 600) >>,
     boosts  |-> << Disc(1600, -1400, 600), Disc(-2000, -1200, 500) >>],
    [id |-> "switch", size |-> 3600,
     hazards |-> << Disc(-600, 0, 600), Disc(800, -1000, 700), Disc(900, 1200, 600) >>,
     boosts  |-> << Disc(-1800, -1400, 500), Disc(1900, 1000, 400) >>] >>

\* function defaultMods()
defaultModsArena == [coolRate |-> 1000, grip |-> 1000, steer |-> 1000, boostGain |-> 1000,
                     boostDrain |-> 1000, hazardSlow |-> 1000, pickRange |-> 1000,
                     heatCash |-> 1000, shield |-> FALSE]

ArenaPerkIds == {"cool", "grip", "boost", "shield", "magnet", "resist"}

\* function applyPerk(perk): PERKS[..].apply(game); an id without an apply
\* function throws, and the throw is swallowed
applyPerkArena(g, perk) ==
    CASE perk = "cool"   -> [g EXCEPT !.mod.heatCash = (@ * 1250) \div 1000]
      [] perk = "grip"   -> [g EXCEPT !.mod.grip = (@ * 1140) \div 1000]
      [] perk = "boost"  -> [g EXCEPT !.mod.boostGain = (@ * 1200) \div 1000,
                                      !.mod.boostDrain = (@ * 900) \div 1000]
      [] perk = "shield" -> [g EXCEPT !.mod.shield = TRUE]
      [] perk = "magnet" -> [g EXCEPT !.mod.pickRange = (@ * 1400) \div 1000]
      [] perk = "resist" -> [g EXCEPT !.mod.hazardSlow = (@ * 750) \div 1000]
      [] OTHER           -> g

\* function addCombo(v)
addComboArena(g, v) == [g EXCEPT !.combo = clamp(g.combo + v, 10000, 90000),
                                 !.comboTimer = 3000]

\* update(dt), lines 4201-4202: the top speed and the cap above it
maxSpeedArena == (ArenaCFG.maxSpeed * speedScale) \div 1000
boostCapArena == (maxSpeedArena * 125) \div 100

\* update(dt), lines 4229-4230: the score multiplier of the heat (1/1000)
scoreMultArena(g) == 1000 + (clamp(g.heat \div 100, 0, 1000) * 650) \div 1000

\* v * k / 1000 on the horizontal components
ScaleVec(v, k) == Vec(Trunc(v.x * k, 1000), v.y, Trunc(v.z * k, 1000))

\* update(dt), lines 4203-4210: the velocity after throttle and brake
throttledArena(g, dt, input, forward) ==
    braked(IF input.accel
           THEN AddScaledDt(g.vel, forward,
                    (ArenaCFG.accel * (1000 - Pow21(clamp((g.speed * 1000) \div Max(10, maxSpeedArena), 0, 1000)))) \div 1000,
                    dt)
           ELSE g.vel,
           dt, input, forward)

\* update(dt), lines 4213-4215: the yaw rate after steering
steeredArena(g, dt, input) ==
    lerp(g.yawVel,
         Trunc((-input.steer)
                 * (((((IF input.drift THEN ArenaCFG.steerDrift ELSE ArenaCFG.steer) * g.mod.steer) \div 1000)
                      * (550 + ((1000 - clamp((g.speed * 1000) \div Max(10, maxSpeedArena), 0, 1000)) * 600) \div 1000))
                     \div 1000),
               1000),
         dt * (IF input.drift THEN 6 ELSE 8))

\* update(dt), lines 4218-4221: the velocity with its sideways part eased off
sideArena(v, forward, right, side) ==
    Vec(Trunc(forward.x * Trunc(Dot(v, forward), 1000), 1000) + Trunc(right.x * side, 1000),
        v.y,
        Trunc(forward.z * Trunc(Dot(v, forward), 1000), 1000) + Trunc(right.z * side, 1000))

\* update(dt), lines 4212, 4218-4224: lateral grip and drag
grippedArena(g, v, dt, input, forward, right) ==
    ScaleVec(sideArena(v, forward, right,
                 lerp(Trunc(Dot(v, right), 1000), 0,
                      (dt * (((IF input.drift THEN ArenaCFG.driftGrip ELSE ArenaCFG.lateralGrip) * g.mod.grip) \div 1000)) \div 1000)),
             Max(0, 1000 - ((ArenaCFG.drag + (IF input.accel THEN 0 ELSE ArenaCFG.coastDrag)) * dt) \div 1000))

\* update(dt), lines 4225-4227: the cap on the velocity
cappedArena(v) == IF Hypot(v.x, v.z) > boostCapArena THEN SetLength(v, boostCapArena) ELSE v

\* update(dt), lines 4193, 4215-4216, 4225-4227: the game object with the new
\* yaw rate, yaw, velocity and speed
turnedArena(g, dt, yawVel, vel) ==
    [g EXCEPT !.runTime = @ + dt,
              !.yawVel = yawVel, !.yaw = g.yaw + Trunc(yawVel * dt, 1000),
              !.vel = vel, !.speed = Hypot(vel.x, vel.z)]

\* update(dt), lines 4193-4227: throttle, steering, grip, drag and the cap
updateVelocityArena(g, dt, input, forward) ==
    turnedArena(g, dt, steeredArena(g, dt, input),
                cappedArena(grippedArena(g, throttledArena(g, dt, input, forward),
                                         dt, input, forward, rightOf(forward))))

\* update(dt), lines 4232-4237: the drift held
driftHeldArena(g, dt, mult) ==
    IF clamp(g.drift + ArenaCFG.driftGain * dt, 0, 100000) > 25000
    THEN [addComboArena(g, dt \div 2) EXCEPT
             !.drift = clamp(g.drift + ArenaCFG.driftGain * dt, 0, 100000),
             !.speed = (g.speed * 995) \div 1000,
             !.heat = @ + ArenaCFG.heatGainDrift * dt,
             !.drifting = TRUE,
             !.score = @ + (((3 * dt) \div 10) * mult) \div 1000]
    ELSE [g EXCEPT
             !.drift = clamp(g.drift + ArenaCFG.driftGain * dt, 0, 100000),
             !.speed = (g.speed * 995) \div 1000,
             !.heat = @ + ArenaCFG.heatGainDrift * dt,
             !.drifting = TRUE]

\* update(dt), lines 4240-4247: the payout of a drift released with charge
\* release01 (1/1000)
driftPayoutArena(g, forward, mult, release01) ==
    [addComboArena(g, 3500 + release01 * 4) EXCEPT
        !.boost = clamp(@ + (((g.drift * ArenaCFG.boostGain) \div 1000) * g.mod.boostGain) \div 1000, 0, 140000),
        !.boostPulse = Max(@, 220 + (release01 * 550) \div 1000),
        !.vel = AddScaled(g.vel, forward, (ArenaCFG.boostImpulse * (300 + release01)) \div 1000),
        !.score = @ + MulDiv(MulDiv(clamp(g.combo + 3500 + release01 * 4, 10000, 90000),
                                    7000 + 18 * release01, 10000),
                             mult, 1000)]

\* update(dt), lines 4232-4253: the drift meter and its release
updateDriftArena(g, dt, input, forward, mult) ==
    IF input.drift THEN driftHeldArena(g, dt, mult)
    ELSE IF g.drifting
    THEN [(IF g.drift > 5000
           THEN driftPayoutArena(g, forward, mult, clamp(g.drift \div 100, 0, 1000))
           ELSE g)
            EXCEPT !.drift = 0, !.drifting = FALSE]
    ELSE g

\* update(dt), line 4261: the pulse that follows a released drift
pulseArena(g, dt, forward) ==
    IF g.boostPulse > 0
    THEN [g EXCEPT !.vel = AddScaledDt(g.vel, forward, ArenaCFG.boostImpulse, dt),
                   !.boostPulse = @ - dt]
    ELSE g

\* update(dt), lines 4255-4261: boost burn and the release pulse
updateBoostArena(g, dt, input, forward) ==
    pulseArena(IF input.boost /\ g.boost > 0
               THEN [g EXCEPT !.vel = AddScaledDt(g.vel, forward, ArenaCFG.boostPower, dt),
                              !.boost = clamp(@ - (ArenaCFG.boostDrain * dt * g.mod.boostDrain) \div 1000, 0, 140000),
                              !.heat = @ + ArenaCFG.heatGainBoost * dt]
               ELSE g,
               dt, forward)

\* clampToArena(map, pos, vel), lines 4290-4293: the reflected, damped velocity
\* for the outward direction dir (1/1000)
reflectArena(vel, dir) ==
    ScaleVec(Vec(vel.x - Trunc(2 * Trunc(Dot(vel, dir), 1000) * dir.x, 1000), vel.y,
                 vel.z - Trunc(2 * Trunc(Dot(vel, dir), 1000) * dir.z, 1000)),
             ArenaCFG.arenaBounce)

\* function clampToArena(map, pos, vel): the position and velocity it leaves
clampToArenaArena(map, pos, vel) ==
    IF pos.x * pos.x + pos.z * pos.z > map.size * map.size
    THEN [pos |-> ScaleVec(Normalize(pos.x, pos.z), (map.size * 995) \div 1000),
          vel |-> reflectArena(vel, Normalize(pos.x, pos.z)),
          bounced |-> TRUE]
    ELSE [pos |-> pos, vel |-> vel, bounced |-> FALSE]

\* clampToArena(map, pos, vel), lines 4294-4298: what a bounce does to the game
bounceArena(g, c) ==
    IF c.bounced THEN [g EXCEPT !.heat = @ + 6000, !.mod.shield = FALSE] ELSE g

\* update(dt), lines 4263-4264: the player placed where clampToArena left it
movedArena(g, c) == bounceArena([g EXCEPT !.pos = c.pos, !.vel = c.vel], c)

\* update(dt), lines 4263-4264: the move and the arena boundary
updateMoveArena(g, dt) ==
    movedArena(g, clampToArenaArena(ArenaMaps[g.map],
                      Vec(g.pos.x + Trunc(g.vel.x * dt, 1000), g.pos.y,
                          g.pos.z + Trunc(g.vel.z * dt, 1000)),
                      g.vel))

\* the point (x, z) lies in the disc
InDisc(pos, d) == (pos.x - d.x) * (pos.x - d.x) + (pos.z - d.z) * (pos.z - d.z) < d.r * d.r

\* function applyHazards(dt, pos): the hazards from the i-th on
RECURSIVE applyHazardsArena(_, _, _, _)
applyHazardsArena(g, dt, pos, i) ==
    IF i > Len(ArenaMaps[g.map].hazards) THEN g
    ELSE IF InDisc(pos, ArenaMaps[g.map].hazards[i])
    THEN applyHazardsArena(
             [g EXCEPT !.heat = @ + ArenaCFG.heatGainHazard * dt,
                       !.vel = ScaleVec(@, Max(0, 1000 - (((ArenaCFG.hazardSlow * dt) \div 1000) * g.mod.hazardSlow) \div 1000))],
             dt, pos, i + 1)
    ELSE applyHazardsArena(g, dt, pos, i + 1)

\* function applyBoostPads(dt, pos, forward): the pads from the i-th on
RECURSIVE applyBoostPadsArena(_, _, _, _, _)
applyBoostPadsArena(g, dt, pos, forward, i) ==
    IF i > Len(ArenaMaps[g.map].boosts) THEN g
    ELSE IF InDisc(pos, ArenaMaps[g.map].boosts[i])
    THEN applyBoostPadsArena(
             [g EXCEPT !.boost = clamp(@ + 16 * dt, 0, 140000),
                       !.vel = AddScaledDt(@, forward, (ArenaCFG.boostPower * 28) \div 100, dt)],
             dt, pos, forward, i + 1)
    ELSE applyBoostPadsArena(g, dt, pos, forward, i + 1)

\* function applyHeat(dt)
applyHeatArena(g, dt) ==
    [g EXCEPT !.heat = clamp(@ - (ArenaCFG.heatCool * dt * g.mod.coolRate) \div 1000, 0, ArenaCFG.maxHeat)]

\* update(dt), lines 4273-4275: combo decay and the score of the distance
updateScoreArena(g, dt, input, mult) ==
    [g EXCEPT
       !.comboTimer = Max(0, @ - dt),
       !.combo = IF g.comboTimer - dt <= 0 THEN Max(10000, @ - 2 * dt) ELSE @,
       !.score = @ + MulDiv(MulDiv(IF g.comboTimer - dt <= 0 THEN Max(10000, g.combo - 2 * dt) ELSE g.combo,
                                   (((g.speed * 6) \div 10 + (IF input.drift THEN 300 ELSE 0)) * dt) \div 1000,
                                   10000),
                            mult, 1000)]

\* update(dt), lines 4266-4275: zones, cooling, combo and score at the new place
updateZonesArena(g, dt, input, forward, mult) ==
    updateScoreArena(
        applyHeatArena(applyBoostPadsArena(applyHazardsArena(g, dt, g.pos, 1), dt, g.pos, forward, 1), dt),
        dt, input, mult)

---------------------------------------------------------------------------
(* src/unnamed/part_001, lines 4390-4559: pickups and rivals of the arena.   *)
(* W = [g, rivals, pickups, moveVel, hits, ...] is the game object with the  *)
(* two active lists; moveVel observes the velocity of the latest position    *)
(* step, hits the rival contacts and rivalBounces the rivals' bounces off the *)
(* wall of the latest update.                                                *)

\* function spawnPickup(): the drawn place and type
spawnPickupArena(pickups, draw) == Append(pickups, [pos |-> draw.pos, type |-> draw.type])

\* function collectPickup(p)
collectPickupArena(g, p) ==
    CASE p.type = "cool" ->
           addComboArena([g EXCEPT !.score = @ + MulDiv(g.combo, ((ArenaCFG.heatCashBase + (g.heat * ArenaCFG.heatCashPerPoint) \div 10) * g.mod.heatCash) \div 1000, 10000),
                                   !.heat = 0], 8000)
      [] p.type = "cell" -> [g EXCEPT !.boost = clamp(@ + 45000, 0, 140000)]
      [] p.type = "shield" -> [g EXCEPT !.mod.shield = TRUE]
      [] OTHER ->
           addComboArena([g EXCEPT !.score = @ + MulDiv(MulDiv(g.combo, 18000, 10000), scoreMultArena(g), 1000)], 5000)

\* updatePickups(dt), line 4397: the bobbing pickup of JS index i - 1
bobArena(g, p, i) ==
    [p.pos EXCEPT !.y = 8 + Trunc(Sin((g.runTime * 4) + 1000 * (i - 1)) * 2, 1000)]

\* updatePickups(dt), lines 4400-4406: the pickup at pos is taken, pulled or left
pickupAtArena(W, i, pos, dist2, pullRange) ==
    IF dist2 < pullRange * pullRange /\ dist2 < 900
    THEN [W EXCEPT !.g = collectPickupArena(W.g, W.pickups[i]),
                   !.pickups = RemoveAt(W.pickups, i)]
    ELSE IF dist2 < pullRange * pullRange
    THEN [W EXCEPT !.pickups[i].pos = Vec(pos.x + Trunc((W.g.pos.x - pos.x) * 5, 100),
                                          pos.y + Trunc((W.g.pos.y - pos.y) * 5, 100),
                                          pos.z + Trunc((W.g.pos.z - pos.z) * 5, 100))]
    ELSE [W EXCEPT !.pickups[i].pos = pos]

\* updatePickups(dt), the loop from the pickup of JS index i - 1 down
RECURSIVE pickupLoopArena(_, _)
pickupLoopArena(W, i) ==
    IF i < 1 THEN W
    ELSE pickupLoopArena(
             pickupAtArena(W, i, bobArena(W.g, W.pickups[i], i),
                           Dist2(bobArena(W.g, W.pickups[i], i), W.g.pos),
                           (ArenaCFG.pickupRange * W.g.mod.pickRange) \div 1000),
             i - 1)

\* updatePickups(dt), lines 4392-4393: the spawn timer
pickupTimerArena(W, dt, draw) ==
    IF W.g.pickupTimer - dt <= 0 /\ Len(W.pickups) < ArenaCFG.pickupMax
    THEN [W EXCEPT !.g.pickupTimer = ArenaCFG.pickupInterval,
                   !.pickups = spawnPickupArena(@, draw)]
    ELSE [W EXCEPT !.g.pickupTimer = @ - dt]

\* the loop over all pickups of W
pickupsAllArena(W) == pickupLoopArena(W, Len(W.pickups))

\* function updatePickups(dt)
updatePickupsArena(W, dt, rnd) == pickupsAllArena(pickupTimerArena(W, dt, rnd.pickup))

\* function spawnRival(): a rival at rest at the drawn place, of the drawn type
spawnRivalArena(rivals, draw) ==
    Append(rivals, [pos |-> draw.pos, vel |-> Zero3, speed |-> 0, type |-> draw.type,
                    nearCd |-> 0, hitCd |-> 0])

\* function bump()
bumpArena(g) ==
    addComboArena([g EXCEPT !.vel = Vec(Trunc(g.vel.x * 7, 10), Trunc(g.vel.y * 7, 10), Trunc(g.vel.z * 7, 10)),
                            !.heat = @ + 8000],
                  -5000)

\* updateRivals(dt), lines 4481-4489: the direction the rival steers along
rivalAimArena(g, r, i, dir) ==
    Normalize(dir.x + Trunc(dir.z * (CASE r.type = "blocker" -> Trunc(Sin((g.runTime * 14) \div 10 + 1000 * (i - 1)) * 450, 1000)
                                       [] r.type = "hunter"  -> Trunc(Sin((g.runTime * 26) \div 10 + 1000 * (i - 1)) * 250, 1000)
                                       [] OTHER -> 0), 1000),
              dir.z + Trunc((-dir.x) * (CASE r.type = "blocker" -> Trunc(Sin((g.runTime * 14) \div 10 + 1000 * (i - 1)) * 450, 1000)
                                          [] r.type = "hunter"  -> Trunc(Sin((g.runTime * 26) \div 10 + 1000 * (i - 1)) * 250, 1000)
                                          [] OTHER -> 0), 1000))

\* updateRivals(dt), lines 4490-4491: acceleration along the aim, then drag
rivalPushedArena(r, aim, dt, jitter) ==
    ScaleVec(AddScaledDt(r.vel, aim, (ArenaCFG.rivalAccel * (850 + (jitter * 300) \div 1000)) \div 1000, dt),
             Max(0, 1000 - (ArenaCFG.rivalDrag * dt) \div 1000))

\* updateRivals(dt), lines 4476-4477, 4492: the cap at rivalTop
rivalCappedArena(v) ==
    IF Hypot(v.x, v.z) > (maxSpeedArena * ArenaCFG.rivalMaxFactor) \div 1000
    THEN SetLength(v, (maxSpeedArena * ArenaCFG.rivalMaxFactor) \div 1000)
    ELSE v

\* observation of a rival's bounce off the wall: the player's heat and shield
\* on entry of clampToArena and on its return
WallHit(before, after) ==
    [heat |-> before.heat, shield |-> before.mod.shield,
     outHeat |-> after.heat, outShield |-> after.mod.shield]

\* updateRivals(dt), lines 4480, 4493-4500: rival i moved with velocity v to
\* where clampToArena left it, and the game after that call
rivalPlacedArena(W, i, dt, v, c) ==
    [W EXCEPT !.g = bounceArena(W.g, c),
              !.rivalBounces = IF c.bounced THEN Append(@, WallHit(W.g, bounceArena(W.g, c))) ELSE @,
              !.rivals[i] = [@ EXCEPT !.hitCd = Max(0, @ - dt), !.speed = Hypot(v.x, v.z),
                                      !.pos = c.pos, !.vel = c.vel,
                                      !.nearCd = Max(0, @ - dt)]]

\* updateRivals(dt), lines 4494-4495: the move with velocity v
rivalAdvanceArena(W, i, dt, v) ==
    rivalPlacedArena(W, i, dt, v,
        clampToArenaArena(ArenaMaps[W.g.map],
            Vec(W.rivals[i].pos.x + Trunc(v.x * dt, 1000), W.rivals[i].pos.y,
                W.rivals[i].pos.z + Trunc(v.z * dt, 1000)),
            v))

\* updateRivals(dt), lines 4480-4500: the chase step of rival i
rivalMoveArena(W, i, dt, jitter) ==
    rivalAdvanceArena(W, i, dt,
        rivalCappedArena(rivalPushedArena(W.rivals[i],
            rivalAimArena(W.g, W.rivals[i], i, rivalDir(W.g, W.rivals[i], i)), dt, jitter)))

\* updateRivals(dt), lines 4501-4507: a near miss of rival i at squared
\* distance d2
rivalNearArena(W, i, d2) ==
    IF d2 > 900 /\ d2 < 6400 /\ W.rivals[i].nearCd <= 0
    THEN [W EXCEPT !.g = [addComboArena(W.g, 1200) EXCEPT !.score = @ + (18 * scoreMultArena(W.g)) \div 10],
                   !.rivals[i].nearCd = 1000]
    ELSE W

\* updateRivals(dt), lines 4510-4514: the contact normal (1/1000) of two
\* vehicles closer than 2.85; draw is the random direction used when places
\* and velocities coincide
contactNormalArena(g, r, draw) ==
    IF g.pos.x # r.pos.x \/ g.pos.z # r.pos.z
    THEN Normalize(100 * (g.pos.x - r.pos.x), 100 * (g.pos.z - r.pos.z))
    ELSE IF g.vel.x # r.vel.x \/ g.vel.z # r.vel.z
    THEN Normalize(g.vel.x - r.vel.x, g.vel.z - r.vel.z)
    ELSE Normalize(draw.x, draw.z)

separatedArenaHalfway(pos, n, shift) ==
    Vec(pos.x * 1000 + Trunc(n.x * (shift \div 2), 1000), pos.y * 1000,
        pos.z * 1000 + Trunc(n.z * (shift \div 2), 1000))

\* updateRivals(dt), lines 4516-4520: pos.addScaledVector(n, shift), the place
\* and the shift in 1/10000 unit
separatedArena(pos, n, shift) ==
    Vec(pos.x * 1000 + Trunc(n.x * shift, 1000), pos.y * 1000,
        pos.z * 1000 + Trunc(n.z * shift, 1000))

\* a place of 1/10000 unit stored in 1/10 unit
Stored(P) == Vec(Trunc(P.x, 1000), Trunc(P.y, 1000), Trunc(P.z, 1000))

\* updateRivals(dt), lines 4516-4529: the player separated to P and rival i to
\* R, and the damped swap of the normal velocities vpn and vrn
rivalSwapArena(W, i, n, P, R, vpn, vrn) ==
    [W EXCEPT !.g.pos = Stored(P),
              !.g.vel = AddScaled(@, n, Trunc((vrn - vpn) * 55, 100)),
              !.rivals[i].pos = Stored(R),
              !.rivals[i].vel = AddScaled(@, n, Trunc((vpn - vrn) * 55, 100))]

\* updateRivals(dt), lines 4531-4534: shield or bump, and the hit cooldown
rivalHitArena(W, i) ==
    [W EXCEPT !.g = IF W.g.mod.shield THEN [W.g EXCEPT !.mod.shield = FALSE] ELSE bumpArena(W.g),
              !.rivals[i].hitCd = 350]

\* observation of one contact: the player on entry of the block of lines
\* 4508-4535 and on its exit, and the places right after the separation
Hit(before, after, pen, P, R) ==
    [shield |-> before.mod.shield, vel |-> before.vel, heat |-> before.heat,
     outShield |-> after.mod.shield, outVel |-> after.vel, outHeat |-> after.heat,
     pen |-> pen, P |-> P, R |-> R]

\* the contact that led from W to W2, observed
rivalSeenArena(W, W2, pen, P, R) ==
    [W2 EXCEPT !.hits = Append(@, Hit(W.g, W2.g, pen, P, R))]

\* updateRivals(dt), lines 4509-4534: the contact of rival i with penetration
\* pen (1/1000 unit) along the normal n
rivalResolveArena(W, i, pen, n) ==
    rivalSeenArena(W,
        rivalHitArena(
            rivalSwapArena(W, i, n,
                separatedArena(W.g.pos, n, (pen * 58) \div 10),
                separatedArena(W.rivals[i].pos, n, -((pen * 58) \div 10)),
                Trunc(Dot(W.g.vel, n), 1000), Trunc(Dot(W.rivals[i].vel, n), 1000)),
            i),
        pen,
        separatedArena(W.g.pos, n, (pen * 58) \div 10),
        separatedArena(W.rivals[i].pos, n, -((pen * 58) \div 10)))

\* updateRivals(dt), lines 4508-4535: the contact of rival i at squared
\* distance d2; dz < 2.85, penetration = Math.max(0, 2.85 - dz)
rivalContactArena(W, i, d2, draw) ==
    IF 4 * d2 < 3249 /\ W.rivals[i].hitCd <= 0
    THEN rivalResolveArena(W, i, Max(0, 2850 - ISqrt(d2 * 10000)),
                           contactNormalArena(W.g, W.rivals[i], draw))
    ELSE W

\* updateRivals(dt), lines 4501-4535 for the moved rival i
rivalMeetArena(W, i, rnd) ==
    rivalContactArena(
        rivalNearArena(W, i, Dist2(W.g.pos, W.rivals[i].pos)), i,
        Dist2(W.g.pos, W.rivals[i].pos), rnd.normal)

\* updateRivals(dt), the loop from the rival of JS index i - 1 down
RECURSIVE rivalLoopArena(_, _, _, _)
rivalLoopArena(W, i, dt, rnd) ==
    IF i < 1 THEN W
    ELSE rivalLoopArena(rivalMeetArena(rivalMoveArena(W, i, dt, rnd.jitter), i, rnd),
                        i - 1, dt, rnd)

\* updateRivals(dt), lines 4473-4474: the spawn timer
rivalTimerArena(W, dt, draw) ==
    IF W.g.rivalTimer - dt <= 0 /\ Len(W.rivals) < ArenaCFG.rivalMax
    THEN [W EXCEPT !.g.rivalTimer = ArenaCFG.rivalInterval, !.rivals = spawnRivalArena(@, draw)]
    ELSE [W EXCEPT !.g.rivalTimer = @ - dt]

\* the loop over all rivals of W
rivalsAllArena(W, dt, rnd) == rivalLoopArena(W, Len(W.rivals), dt, rnd)

\* function updateRivals(dt)
updateRivalsArena(W, dt, rnd) == rivalsAllArena(rivalTimerArena(W, dt, rnd.rival), dt, rnd)

\* function autoInput(dt), after game.autopilotTime += dt
autoInputArena(t, rndBoost) ==
    Input(Trunc(Sin((t * 7) \div 10) * 800, 1000), TRUE, FALSE,
          Sin((t * 13) \div 10) > 650, rndBoost)

\* update(dt), lines 4193-4261: the player up to the position step
driveArena(g, dt, input, forward, mult) ==
    updateBoostArena(updateDriftArena(updateVelocityArena(g, dt, input, forward),
                                      dt, input, forward, mult),
                     dt, input, forward)

\* update(dt), lines 4263-4280, for the player d about to move
afterDriveArena(W, d, dt, input, forward, mult, rnd) ==
    updateRivalsArena(
        updatePickupsArena(
            [W EXCEPT !.g = updateZonesArena(updateMoveArena(d, dt), dt, input, forward, mult),
                      !.moveVel = d.vel, !.hits = <<>>, !.rivalBounces = <<>>],
            dt, rnd),
        dt, rnd)

\* update(dt) on the input read
stepArena(W, g, dt, input, forward, mult, rnd) ==
    afterDriveArena(W, driveArena(g, dt, input, forward, mult), dt, input, forward, mult, rnd)

\* function update(dt)
updateArena(W, dt, keys, rnd) ==
    IF W.g.state = "attract"
    THEN stepArena(W, [W.g EXCEPT !.autopilotTime = @ + dt], dt,
                   autoInputArena(W.g.autopilotTime + dt, rnd.boost),
                   forwardOf(W.g.yaw), scoreMultArena(W.g), rnd)
    ELSE stepArena(W, W.g, dt, keys, forwardOf(W.g.yaw), scoreMultArena(W.g), rnd)

\* const game = { ... } with game.perk = loadPerk() and, after boot(),
\* selectMap(game.mapIndex)
bootArena(perk) ==
    [state |-> "menu", mode |-> "player", map |-> 1,
     pos |-> Zero3, vel |-> Zero3, yaw |-> 0, yawVel |-> 0, speed |-> 0,
     drift |-> 0, boost |-> 0, boostPulse |-> 0, heat |-> 0,
     combo |-> 10000, comboTimer |-> 0, score |-> 0, runTime |-> 0,
     last |-> Num(0),
     pickupTimer |-> ArenaCFG.pickupInterval, rivalTimer |-> ArenaCFG.rivalInterval,
     drifting |-> FALSE, perk |-> perk, mod |-> defaultModsArena, autopilotTime |-> 0]

\* function buildArena(def), lines 4136-4140: two rivals and a pickup
buildArenaArena(W, draws) ==
    [W EXCEPT !.rivals = spawnRivalArena(spawnRivalArena(<<>>, draws.rival1), draws.rival2),
              !.pickups = spawnPickupArena(<<>>, draws.pickup)]

\* startRun(mode), lines 4008-4017: the game object reset
resetArena(g, mode) ==
    applyPerkArena(
        [g EXCEPT !.mode = IF mode = "demo" THEN "attract" ELSE "player",
                  !.state = IF mode = "demo" THEN "attract" ELSE "playing",
                  !.pos = Zero3, !.vel = Zero3, !.yaw = 0, !.yawVel = 0,
                  !.speed = 0, !.drift = 0, !.boost = 0, !.boostPulse = 0, !.heat = 0,
                  !.combo = 10000, !.comboTimer = 0, !.score = 0, !.runTime = 0,
                  !.pickupTimer = ArenaCFG.pickupInterval,
                  !.rivalTimer = ArenaCFG.rivalInterval,
                  !.autopilotTime = 0, !.mod = defaultModsArena],
        g.perk)

\* function startRun(mode)
startRunArena(W, mode, draws) == buildArenaArena([W EXCEPT !.g = resetArena(W.g, mode)], draws)

\* tick(now), line 4147: Math.min(CFG.dtMax, t - (game.last || t))
frameDtArena(last, t) ==
    IF t.k = "nan" THEN NaN
    ELSE IF last.k = "nan" \/ last.v = 0 THEN Num(Min(ArenaCFG.dtMax, 0))
    ELSE Num(Min(ArenaCFG.dtMax, t.v - last.v))

\* tick(now), lines 4148-4150, for the frame's dt
tickedArena(W, dt, keys, rnd) ==
    IF dt.k = "nan" \/ dt.v <= 0 THEN W
    ELSE IF W.g.state \in {"playing", "attract"} THEN updateArena(W, dt.v, keys, rnd)
    ELSE W

\* function tick(now)
tickArena(W, now, keys, rnd) ==
    tickedArena([W EXCEPT !.g.last = now], frameDtArena(W.g.last, now), keys, rnd)

---------------------------------------------------------------------------
(* src/unnamed/part_001, lines 2324-3214: the open arena whose overheat      *)
(* costs grip.  Units as in the arena of lines 3236-4679.                    *)

A2CFG == [
    dtMax            |-> 50,
    accel            |-> 2300,
    brake            |-> 2600,
    drag             |-> 140,
    coastDrag        |-> 80,
    steer            |-> 2200,
    steerDrift       |-> 3000,
    lateralDamp      |-> 7,
    driftGain        |-> 30,
    boostGain        |-> 750,
    boostForce       |-> 6200,
    boostDrain       |-> 40,
    boostImpulse     |-> 1400,
    maxSpeed         |-> 3600,
    heatGainDrift    |-> 20,
    heatGainBoost    |-> 28,
    heatGainHazard   |-> 55,
    heatCool         |-> 16,
    overheatDuration |-> 2800,
    pickupInterval   |-> 7000,
    rivalInterval    |-> 5000,
    rivalMax         |-> 6,
    pickupMax        |-> 6,
    pickupRange      |-> 110,
    arenaBounce      |-> 450 ]

\* MAPS[0] 'crater' and MAPS[2] 'switch'
A2Maps == <<
    [id |-> "crater", size |-> 4200,
     hazards |-> << Disc(0, 0, 900), Disc(-1600, 1300, 600) >>,
     boosts  |-> << Disc(1600, -1400, 600), Disc(-2000, -1200, 500) >>],
    [id |-> "switch", size |-> 3600,
     hazards |-> << Disc(-600, 0, 600), Disc(800, -1000, 700), Disc(900, 1200, 600) >>,
     boosts  |-> << Disc(-1800, -1400, 500), Disc(1900, 1000, 400) >>] >>

\* function defaultMods()
defaultModsA2 == [coolRate |-> 1000, grip |-> 1000, boostGain |-> 1000, boostDrain |-> 1000,
                  hazardResist |-> 1000, offroadResist |-> 0, pickRange |-> 1000,
                  shield |-> FALSE]

\* function applyPerk(perk): PERKS[..].apply(game)
applyPerkA2(g, perk) ==
    CASE perk = "cool"   -> [g EXCEPT !.mod.coolRate = (@ * 1250) \div 1000]
      [] perk = "grip"   -> [g EXCEPT !.mod.grip = (@ * 1120) \div 1000,
                                      !.mod.offroadResist = @ + 150]
      [] perk = "boost"  -> [g EXCEPT !.mod.boostGain = (@ * 1200) \div 1000,
                                      !.mod.boostDrain = (@ * 900) \div 1000]
      [] perk = "shield" -> [g EXCEPT !.mod.shield = TRUE]
      [] perk = "magnet" -> [g EXCEPT !.mod.pickRange = (@ * 1400) \div 1000]
      [] perk = "resist" -> [g EXCEPT !.mod.hazardResist = (@ * 700) \div 1000]
      [] OTHER           -> g

\* function addCombo(v)
addComboA2(g, v) == [g EXCEPT !.combo = clamp(g.combo + v, 10000, 90000),
                              !.comboTimer = 3000]

\* function endRun(reason)
endRunA2(g) == IF g.state = "over" THEN g ELSE [g EXCEPT !.state = "over"]

\* update(dt), lines 2870-2871: throttle and brake
throttledA2(g, dt, input, forward) ==
    AddScaledDt(IF input.accel THEN AddScaledDt(g.vel, forward, A2CFG.accel, dt) ELSE g.vel,
                forward, IF input.brake THEN -A2CFG.brake ELSE 0, dt)

\* update(dt), lines 2873-2874: the yaw rate after steering; an overheated
\* car steers at 0.6 of the rate
steeredA2(g, dt, input) ==
    lerp(g.yawVel,
         Trunc(input.steer
                 * (((((((IF input.drift THEN A2CFG.steerDrift ELSE A2CFG.steer)
                           * (IF g.overheat > 0 THEN 600 ELSE 1000)) \div 1000)
                         * g.mod.grip) \div 1000)
                       * (800 + (g.speed * 1000) \div A2CFG.maxSpeed)) \div 1000),
               1000),
         dt * 8)

\* update(dt), lines 2877-2883: the sideways velocity damped, then drag
grippedA2(v, dt, input, forward, right) ==
    ScaleVec(sideArena(v, forward, right,
                       lerp(Trunc(Dot(v, right), 1000), 0, dt * A2CFG.lateralDamp)),
             Max(0, 1000 - ((A2CFG.drag + (IF input.accel THEN 0 ELSE A2CFG.coastDrag)) * dt) \div 1000))

\* update(dt), lines 2864, 2874-2875, 2884-2885: the game object with the new
\* yaw rate, yaw, velocity and speed
turnedA2(g, dt, yawVel, vel) ==
    [g EXCEPT !.runTime = @ + dt,
              !.yawVel = yawVel, !.yaw = g.yaw + Trunc(yawVel * dt, 1000),
              !.vel = vel,
              !.speed = clamp(Hypot(vel.x, vel.z), 0, (A2CFG.maxSpeed * 135) \div 100)]

\* update(dt), lines 2864-2885
updateVelocityA2(g, dt, input, forward) ==
    turnedA2(g, dt, steeredA2(g, dt, input),
             grippedA2(throttledA2(g, dt, input, forward), dt, input, forward, rightOf(forward)))

\* update(dt), lines 2887-2902: the drift meter and its release
updateDriftA2(g, dt, input) ==
    IF input.drift
    THEN [g EXCEPT !.drift = clamp(@ + A2CFG.driftGain * dt, 0, 100000),
                   !.speed = (@ * 995) \div 1000,
                   !.heat = @ + A2CFG.heatGainDrift * dt,
                   !.drifting = TRUE]
    ELSE IF g.drifting
    THEN [g EXCEPT !.boost = IF g.drift > 5000
                             THEN clamp(@ + (((g.drift * A2CFG.boostGain) \div 1000) * g.mod.boostGain) \div 1000, 0, 140000)
                             ELSE @,
                   !.boostPulse = IF g.drift > 5000 THEN 900 ELSE @,
                   !.drift = 0, !.drifting = FALSE]
    ELSE g

\* update(dt), line 2909: the pulse that follows a released drift
pulseA2(g, dt, forward) ==
    IF g.boostPulse > 0
    THEN [g EXCEPT !.vel = AddScaledDt(g.vel, forward, A2CFG.boostImpulse, dt),
                   !.boostPulse = @ - dt]
    ELSE g

\* update(dt), lines 2904-2909: boost burn and the release pulse
updateBoostA2(g, dt, input, forward) ==
    pulseA2(IF input.boost /\ g.boost > 0
            THEN [g EXCEPT !.vel = AddScaledDt(g.vel, forward, A2CFG.boostForce, dt),
                           !.boost = clamp(@ - (A2CFG.boostDrain * dt * g.mod.boostDrain) \div 1000, 0, 140000),
                           !.heat = @ + A2CFG.heatGainBoost * dt]
            ELSE g,
            dt, forward)

\* function clampToArena(map, pos, vel), lines 2928-2937: the position and
\* velocity it leaves (the body of lines 4286-4296, CFG.arenaBounce 0.45)
clampToArenaA2(map, pos, vel) == clampToArenaArena(map, pos, vel)

\* clampToArena(map, pos, vel), lines 2935-2939: what a bounce does to the game
bounceA2(g, c) ==
    IF c.bounced THEN [g EXCEPT !.heat = @ + 6000, !.mod.shield = FALSE] ELSE g

\* update(dt), lines 2911-2912: the move and the arena boundary
movedA2(g, c) == bounceA2([g EXCEPT !.pos = c.pos, !.vel = c.vel], c)

updateMoveA2(g, dt) ==
    movedA2(g, clampToArenaA2(A2Maps[g.map],
                   Vec(g.pos.x + Trunc(g.vel.x * dt, 1000), g.pos.y,
                       g.pos.z + Trunc(g.vel.z * dt, 1000)),
                   g.vel))

\* function applyHazards(dt, pos): the hazards from the i-th on
RECURSIVE applyHazardsA2(_, _, _, _)
applyHazardsA2(g, dt, pos, i) ==
    IF i > Len(A2Maps[g.map].hazards) THEN g
    ELSE IF InDisc(pos, A2Maps[g.map].hazards[i])
    THEN applyHazardsA2(
             [g EXCEPT !.heat = @ + (A2CFG.heatGainHazard * dt * g.mod.hazardResist) \div 1000,
                       !.vel = ScaleVec(@, 1000 - (600 * dt) \div 1000)],
             dt, pos, i + 1)
    ELSE applyHazardsA2(g, dt, pos, i + 1)

\* function applyBoostPads(dt, pos, forward): the pads from the i-th on
RECURSIVE applyBoostPadsA2(_, _, _, _, _)
applyBoostPadsA2(g, dt, pos, forward, i) ==
    IF i > Len(A2Maps[g.map].boosts) THEN g
    ELSE IF InDisc(pos, A2Maps[g.map].boosts[i])
    THEN applyBoostPadsA2(
             [g EXCEPT !.boost = clamp(@ + 16 * dt, 0, 140000),
                       !.vel = AddScaledDt(@, forward, (A2CFG.boostForce * 35) \div 100, dt)],
             dt, pos, forward, i + 1)
    ELSE applyBoostPadsA2(g, dt, pos, forward, i + 1)

\* applyHeat(dt), lines 2963-2964: the penalty timer run down and the heat
\* cooled and clamped
cooledA2(g, dt) ==
    [g EXCEPT !.overheat = IF @ > 0 THEN Max(0, @ - dt) ELSE @,
              !.heat = clamp(@ - (A2CFG.heatCool * dt * g.mod.coolRate) \div 1000, 0, 100000)]

\* function applyHeat(dt)
applyHeatA2(g, dt) ==
    IF cooledA2(g, dt).heat >= 100000 /\ cooledA2(g, dt).overheat <= 0
    THEN endRunA2([cooledA2(g, dt) EXCEPT !.overheat = A2CFG.overheatDuration])
    ELSE cooledA2(g, dt)

\* update(dt), lines 2918-2920: combo decay and the score of the distance
updateScoreA2(g, dt, input) ==
    [g EXCEPT
       !.comboTimer = Max(0, @ - dt),
       !.combo = IF g.comboTimer - dt <= 0 THEN Max(10000, @ - 2 * dt) ELSE @,
       !.score = @ + MulDiv(IF g.comboTimer - dt <= 0 THEN Max(10000, g.combo - 2 * dt) ELSE g.combo,
                            (((g.speed * 8) \div 10 + (IF input.drift THEN 400 ELSE 0)) * dt) \div 1000,
                            10000)]

\* update(dt), lines 2914-2920: zones, heat, combo and score at the new place
updateZonesA2(g, dt, input, forward) ==
    updateScoreA2(
        applyHeatA2(applyBoostPadsA2(applyHazardsA2(g, dt, g.pos, 1), dt, g.pos, forward, 1), dt),
        dt, input)

\* function spawnPickup(): the drawn place and type
spawnPickupA2(pickups, draw) == Append(pickups, [pos |-> draw.pos, type |-> draw.type])

\* function collectPickup(p)
collectPickupA2(g, p) ==
    CASE p.type = "cool"   -> [g EXCEPT !.heat = Max(0, @ - 28000)]
      [] p.type = "cell"   -> [g EXCEPT !.boost = clamp(@ + 45000, 0, 140000)]
      [] p.type = "shield" -> [g EXCEPT !.mod.shield = TRUE]
      [] p.type = "coin"   -> addComboA2([g EXCEPT !.score = @ + MulDiv(g.combo, 18000, 10000)], 5000)
      [] OTHER             -> g

\* updatePickups(dt), lines 3001-3007: the pickup at pos is taken, pulled or left
pickupAtA2(W, i, pos, dist2, pullRange) ==
    IF dist2 < pullRange * pullRange /\ dist2 < 900
    THEN [W EXCEPT !.g = collectPickupA2(W.g, W.pickups[i]),
                   !.pickups = RemoveAt(W.pickups, i)]
    ELSE IF dist2 < pullRange * pullRange
    THEN [W EXCEPT !.pickups[i].pos = Vec(pos.x + Trunc((W.g.pos.x - pos.x) * 5, 100),
                                          pos.y + Trunc((W.g.pos.y - pos.y) * 5, 100),
                                          pos.z + Trunc((W.g.pos.z - pos.z) * 5, 100))]
    ELSE [W EXCEPT !.pickups[i].pos = pos]

\* updatePickups(dt), the loop from the pickup of JS index i - 1 down
RECURSIVE pickupLoopA2(_, _)
pickupLoopA2(W, i) ==
    IF i < 1 THEN W
    ELSE pickupLoopA2(
             pickupAtA2(W, i, bobArena(W.g, W.pickups[i], i),
                        Dist2(bobArena(W.g, W.pickups[i], i), W.g.pos),
                        (A2CFG.pickupRange * W.g.mod.pickRange) \div 1000),
             i - 1)

\* updatePickups(dt), lines 2994-2995: the spawn timer
pickupTimerA2(W, dt, draw) ==
    IF W.g.pickupTimer - dt <= 0 /\ Len(W.pickups) < A2CFG.pickupMax
    THEN [W EXCEPT !.g.pickupTimer = A2CFG.pickupInterval,
                   !.pickups = spawnPickupA2(@, draw)]
    ELSE [W EXCEPT !.g.pickupTimer = @ - dt]

\* the loop over all pickups of W
pickupsAllA2(W) == pickupLoopA2(W, Len(W.pickups))

\* function updatePickups(dt)
updatePickupsA2(W, dt, rnd) == pickupsAllA2(pickupTimerA2(W, dt, rnd.pickup))

\* function spawnRival(): a rival at rest at the drawn place, of the drawn type
spawnRivalA2(rivals, draw) ==
    Append(rivals, [pos |-> draw.pos, vel |-> Zero3, speed |-> 0, type |-> draw.type])

\* function bump()
bumpA2(g) ==
    addComboA2([g EXCEPT !.vel = Vec(Trunc(g.vel.x * 7, 10), Trunc(g.vel.y * 7, 10), Trunc(g.vel.z * 7, 10)),
                         !.heat = @ + 8000],
               -5000)

\* updateRivals(dt), lines 3065-3068: the sideways weave of rival i (1/1000)
laneOffsetA2(g, r, i) ==
    CASE r.type = "blocker" -> Trunc(Sin((g.runTime * 18) \div 10 + 1000 * (i - 1)) * 600, 1000)
      [] r.type = "hunter"  -> Trunc(Sin(g.runTime * 3 + 1000 * (i - 1)) * 200, 1000)
      [] OTHER -> 0

\* updateRivals(dt), lines 3063-3068: the direction the rival steers along
rivalAimA2(dir, laneOffset) ==
    Normalize(dir.x + Trunc(dir.z * laneOffset, 1000),
              dir.z + Trunc((-dir.x) * laneOffset, 1000))

\* updateRivals(dt), lines 3069-3070: acceleration along the aim, then drag
rivalPushedA2(r, aim, dt, jitter) ==
    ScaleVec(AddScaledDt(r.vel, aim, 1200 + (jitter * 300) \div 1000, dt),
             Max(0, 1000 - (120 * dt) \div 1000))

\* updateRivals(dt), lines 3071-3073: rival i moved with velocity v to where
\* clampToArena left it, and the game after that call
rivalPlacedA2(W, i, v, c) ==
    [W EXCEPT !.g = bounceA2(W.g, c),
              !.rivals[i] = [@ EXCEPT !.speed = clamp(Hypot(v.x, v.z), 400, (A2CFG.maxSpeed * 9) \div 10),
                                      !.pos = c.pos, !.vel = c.vel]]

\* updateRivals(dt), lines 3072-3073: the move with velocity v
rivalAdvanceA2(W, i, dt, v) ==
    rivalPlacedA2(W, i, v,
        clampToArenaA2(A2Maps[W.g.map],
            Vec(W.rivals[i].pos.x + Trunc(v.x * dt, 1000), W.rivals[i].pos.y,
                W.rivals[i].pos.z + Trunc(v.z * dt, 1000)),
            v))

\* updateRivals(dt), lines 3062-3076: the chase step of rival i
rivalMoveA2(W, i, dt, jitter) ==
    rivalAdvanceA2(W, i, dt,
        rivalPushedA2(W.rivals[i],
            rivalAimA2(Normalize(W.g.pos.x - W.rivals[i].pos.x, W.g.pos.z - W.rivals[i].pos.z),
                       laneOffsetA2(W.g, W.rivals[i], i)),
            dt, jitter))

\* updateRivals(dt), lines 3078-3083: the contact of the moved rival i
rivalContactA2(W, i) ==
    IF Dist2(W.g.pos, W.rivals[i].pos) < 900
    THEN [W EXCEPT !.g = IF W.g.mod.shield THEN [W.g EXCEPT !.mod.shield = FALSE] ELSE bumpA2(W.g),
                   !.rivals[i].vel = Vec(Trunc(@.x * 6, 10), Trunc(@.y * 6, 10), Trunc(@.z * 6, 10))]
    ELSE W

\* updateRivals(dt), the loop from the rival of JS index i - 1 down
RECURSIVE rivalLoopA2(_, _, _, _)
rivalLoopA2(W, i, dt, rnd) ==
    IF i < 1 THEN W
    ELSE rivalLoopA2(rivalContactA2(rivalMoveA2(W, i, dt, rnd.jitter), i), i - 1, dt, rnd)

\* updateRivals(dt), lines 3059-3060: the spawn timer
rivalTimerA2(W, dt, draw) ==
    IF W.g.rivalTimer - dt <= 0 /\ Len(W.rivals) < A2CFG.rivalMax
    THEN [W EXCEPT !.g.rivalTimer = A2CFG.rivalInterval, !.rivals = spawnRivalA2(@, draw)]
    ELSE [W EXCEPT !.g.rivalTimer = @ - dt]

\* the loop over all rivals of W
rivalsAllA2(W, dt, rnd) == rivalLoopA2(W, Len(W.rivals), dt, rnd)

\* function updateRivals(dt)
updateRivalsA2(W, dt, rnd) == rivalsAllA2(rivalTimerA2(W, dt, rnd.rival), dt, rnd)

\* function autoInput(dt), after game.autopilotTime += dt
autoInputA2(t, rndBoost) ==
    Input(Trunc(Sin((t * 7) \div 10) * 800, 1000), TRUE, FALSE,
          Sin((t * 13) \div 10) > 650, rndBoost)

\* update(dt), lines 2864-2909: the player up to the position step
driveA2(g, dt, input, forward) ==
    updateBoostA2(updateDriftA2(updateVelocityA2(g, dt, input, forward), dt, input),
                  dt, input, forward)

\* update(dt), lines 2911-2921, for the player d about to move
afterDriveA2(W, d, dt, input, forward, rnd) ==
    updateRivalsA2(
        updatePickupsA2([W EXCEPT !.g = updateZonesA2(updateMoveA2(d, dt), dt, input, forward)],
                        dt, rnd),
        dt, rnd)

\* update(dt) on the input read
stepA2(W, g, dt, input, forward, rnd) ==
    afterDriveA2(W, driveA2(g, dt, input, forward), dt, input, forward, rnd)

\* function update(dt)
updateA2(W, dt, keys, rnd) ==
    IF W.g.state = "attract"
    THEN stepA2(W, [W.g EXCEPT !.autopilotTime = @ + dt], dt,
                autoInputA2(W.g.autopilotTime + dt, rnd.boost), forwardOf(W.g.yaw), rnd)
    ELSE stepA2(W, W.g, dt, keys, forwardOf(W.g.yaw), rnd)

\* const game = { ... } with game.perk = loadPerk() and, after boot(),
\* selectMap(game.mapIndex)
bootA2(perk) ==
    [state |-> "menu", mode |-> "player", map |-> 1,
     pos |-> Zero3, vel |-> Zero3, yaw |-> 0, yawVel |-> 0, speed |-> 0,
     drift |-> 0, boost |-> 0, boostPulse |-> 0, heat |-> 0, overheat |-> 0,
     combo |-> 10000, comboTimer |-> 0, score |-> 0, runTime |-> 0,
     last |-> Num(0),
     pickupTimer |-> A2CFG.pickupInterval, rivalTimer |-> A2CFG.rivalInterval,
     drifting |-> FALSE, perk |-> perk, mod |-> defaultModsA2, autopilotTime |-> 0]

\* function buildArena(def), lines 2815-2819: two rivals and a pickup
buildArenaA2(W, draws) ==
    [W EXCEPT !.rivals = spawnRivalA2(spawnRivalA2(<<>>, draws.rival1), draws.rival2),
              !.pickups = spawnPickupA2(<<>>, draws.pickup)]

\* startRun(mode), lines 2748-2757: the game object reset
resetA2(g, mode) ==
    applyPerkA2(
        [g EXCEPT !.mode = IF mode = "demo" THEN "attract" ELSE "player",
                  !.state = IF mode = "demo" THEN "attract" ELSE "playing",
                  !.pos = Zero3, !.vel = Zero3, !.yaw = 0, !.yawVel = 0,
                  !.speed = 0, !.drift = 0, !.boost = 0, !.boostPulse = 0, !.heat = 0,
                  !.overheat = 0,
                  !.combo = 10000, !.comboTimer = 0, !.score = 0, !.runTime = 0,
                  !.pickupTimer = A2CFG.pickupInterval,
                  !.rivalTimer = A2CFG.rivalInterval,
                  !.autopilotTime = 0, !.mod = defaultModsA2],
        g.perk)

\* function startRun(mode)
startRunA2(W, mode, draws) == buildArenaA2([W EXCEPT !.g = resetA2(W.g, mode)], draws)

\* tick(now), line 2826: Math.min(CFG.dtMax, t - (game.last || t))
frameDtA2(last, t) ==
    IF t.k = "nan" THEN NaN
    ELSE IF last.k = "nan" \/ last.v = 0 THEN Num(Min(A2CFG.dtMax, 0))
    ELSE Num(Min(A2CFG.dtMax, t.v - last.v))

\* tick(now), lines 2828-2829, for the frame's dt
tickedA2(W, dt, keys, rnd) ==
    IF dt.k = "nan" \/ dt.v <= 0 THEN W
    ELSE IF W.g.state \in {"playing", "attract"} THEN updateA2(W, dt.v, keys, rnd)
    ELSE W

\* function tick(now)
tickA2(W, now, keys, rnd) ==
    tickedA2([W EXCEPT !.g.last = now], frameDtA2(W.g.last, now), keys, rnd)

---------------------------------------------------------------------------
(* src/unnamed/part_001, lines 631-1618: the pseudo-3D road.  Units: time    *)
(* in ms; z and speeds in 1/10 unit; pos.x and lanes in 1/10000; curve and   *)
(* hill in 1/1000; meters in 1/1000 point; combo in 1/10000; score in 1/100. *)
(* The page runs with the default settings (enemyAI 'standard'); particles,  *)
(* camera shake and the fps readout are presentation and are left out.       *)

RoadCFG == [
    segmentLength      |-> 180,
    roadWidth          |-> 2000,
    maxSpeed           |-> 2600,
    accel              |-> 1200,
    brake              |-> 1800,
    offroad            |-> 700,
    driftGain          |-> 28,
    boostForce         |-> 5200,
    boostDrain         |-> 30,
    heatGain           |-> 28,
    heatLava           |-> 40,
    heatCool           |-> 22,
    maxHeat            |-> 100000,
    comboWindow        |-> 3000,
    pickupInterval     |-> 8000,
    enemySpawnInterval |-> 6000 ]

\* a section of a course: { len, curve, hill, hazard }
RoadSec(len, curve, hill, lava) == [len |-> len, curve |-> curve, hill |-> hill, lava |-> lava]

\* laps: Infinity
Endless == -1

\* TRACKS[0] 'ember-loop' and TRACKS[7] 'flux-proc'
RoadTracks == <<
    [id |-> "ember-loop", laps |-> 2, procedural |-> FALSE,
     sections |-> << RoadSec(50, 0, 0, FALSE), RoadSec(80, 500, 4000, FALSE),
                     RoadSec(60, -400, -2000, TRUE), RoadSec(40, 0, 0, FALSE) >>],
    [id |-> "flux-proc", laps |-> Endless, procedural |-> TRUE, sections |-> << >>] >>

\* function buildProceduralSections(): six sections with the len, curve, hill
\* and hazard that Math.random() gave, rolls[i] holding the four draws of
\* section i (1/1000)
buildProceduralSections(rolls) ==
    [i \in 1..6 |->
        RoadSec(60 + (rolls[i].len * 40) \div 1000,
                (rolls[i].curve * 12) \div 10 - 600,
                rolls[i].hill * 6 - 3000,
                rolls[i].lava > 550)]

\* the number of segments of the sections from the k-th on
RECURSIVE segmentCount(_, _)
segmentCount(sections, k) ==
    IF k > Len(sections) THEN 0 ELSE sections[k].len + segmentCount(sections, k + 1)

\* function buildTrack(def): the sections laid out, the number of segments,
\* the length and the laps
buildTrackRoad(def, rolls) ==
    [sections |-> IF def.procedural THEN buildProceduralSections(rolls) ELSE def.sections,
     count |-> segmentCount(IF def.procedural THEN buildProceduralSections(rolls) ELSE def.sections, 1),
     length |-> segmentCount(IF def.procedural THEN buildProceduralSections(rolls) ELSE def.sections, 1)
                  * RoadCFG.segmentLength,
     laps |-> def.laps]

\* buildTrack(def), lines 1001-1016: the segment of index i, found in the
\* sections from the k-th on: its curve and its hazard flag
RECURSIVE segmentAt(_, _, _)
segmentAt(sections, k, i) ==
    IF k > Len(sections) THEN [curve |-> 0, hazard |-> FALSE]
    ELSE IF i < sections[k].len
    THEN [curve |-> sections[k].curve,
          hazard |-> sections[k].lava /\ 10 * i > 3 * sections[k].len
                                      /\ 10 * i < 7 * sections[k].len]
    ELSE segmentAt(sections, k + 1, i - sections[k].len)

\* function findSegment(z)
findSegment(track, z) == segmentAt(track.sections, 1, (z \div RoadCFG.segmentLength) % track.count)

\* function wrapZ(z)
wrapZ(track, z) ==
    IF 2 * z > track.length THEN z - track.length
    ELSE IF 2 * z < -track.length THEN z + track.length
    ELSE z

\* function addCombo(v)
addComboRoad(g, v) == [g EXCEPT !.combo = clamp(g.combo + v, 10000, 90000),
                                !.comboTimer = RoadCFG.comboWindow]

\* function bump(type)
bumpRoad(g) == [g EXCEPT !.combo = Max(10000, g.combo - 4000)]

\* function endRun(reason)
endRunRoad(g) == [g EXCEPT !.state = "over"]

\* function autoInput()
autoInputRoad(t, rndBoost) ==
    Input(Trunc(Sin((t * 7) \div 10) * 400, 1000), TRUE, FALSE,
          Sin((t * 11) \div 10) > 700, rndBoost)

\* handlePlayer(input, dt), lines 1111-1116: steering and speed
steerRoad(g, dt, input, seg) ==
    [g EXCEPT
       !.x = @ - Trunc(((seg.curve * g.speed) \div 100) * dt * 15, 100000)
               + Trunc(input.steer * dt * (4000 + g.speed), 400000),
       !.speed = clamp(@ + (IF input.accel THEN (RoadCFG.accel * dt) \div 1000 ELSE 0)
                         - (IF input.brake THEN (RoadCFG.brake * dt) \div 1000 ELSE 0)
                         - (IF ~input.accel /\ ~input.brake
                            THEN (RoadCFG.accel * 4 * dt) \div 10000 ELSE 0),
                       0, RoadCFG.maxSpeed)]

\* handlePlayer(input, dt), lines 1118-1119: off the road
offroadRoad(g) ==
    IF Abs(g.x) > 10000 THEN [g EXCEPT !.speed = (@ * RoadCFG.offroad) \div 1000] ELSE g

\* handlePlayer(input, dt), lines 1120-1123: on lava
lavaRoad(g, dt, seg) ==
    IF seg.hazard THEN addComboRoad([g EXCEPT !.heat = @ + RoadCFG.heatLava * dt], 500) ELSE g

\* handlePlayer(input, dt), lines 1126-1136: the drift meter and its release
driftRoad(g, dt, input) ==
    IF input.drift
    THEN addComboRoad(
             [g EXCEPT !.driftMeter = clamp(@ + (Abs(input.steer) * RoadCFG.driftGain * dt) \div 1000, 0, 100000),
                       !.heat = @ + (RoadCFG.heatGain * 4 * dt) \div 10],
             500)
    ELSE IF g.driftMeter > 5000
    THEN [g EXCEPT !.boost = clamp(@ + (g.driftMeter * 6) \div 10, 0, 100000), !.driftMeter = 0]
    ELSE g

\* handlePlayer(input, dt), lines 1137-1142: boost burn
burnRoad(g, dt, input) ==
    IF input.boost /\ g.boost > 0 /\ ~g.overheat
    THEN [g EXCEPT !.speed = clamp(@ + (RoadCFG.boostForce * dt) \div 1000, 0, (RoadCFG.maxSpeed * 12) \div 10),
                   !.boost = clamp(@ - RoadCFG.boostDrain * dt, 0, 100000),
                   !.heat = @ + RoadCFG.heatGain * dt]
    ELSE g

\* function applyHeat(dt)
applyHeatRoad(g, dt) ==
    IF clamp(g.heat - RoadCFG.heatCool * dt, 0, RoadCFG.maxHeat) >= RoadCFG.maxHeat /\ ~g.overheat
    THEN endRunRoad([g EXCEPT !.heat = RoadCFG.maxHeat, !.overheat = TRUE])
    ELSE [g EXCEPT !.heat = clamp(@ - RoadCFG.heatCool * dt, 0, RoadCFG.maxHeat)]

\* handlePlayer(input, dt), lines 1145-1146: the move along the road
advanceRoad(g, dt) ==
    [g EXCEPT !.z = IF g.z + (g.speed * dt) \div 1000 >= g.track.length
                    THEN g.z + (g.speed * dt) \div 1000 - g.track.length
                    ELSE g.z + (g.speed * dt) \div 1000]

\* handlePlayer(input, dt), lines 1148-1150: score and combo decay
scoreRoad(g, dt) ==
    [g EXCEPT !.score = @ + MulDiv(g.combo, (g.speed * 12 * dt) \div 10000, 10000),
              !.comboTimer = Max(0, @ - dt),
              !.combo = IF g.comboTimer - dt <= 0 THEN Max(10000, @ - 2500) ELSE @]

\* handlePlayer(input, dt), lines 1153-1163: the enemies from the i-th on
RECURSIVE collideRoad(_, _, _)
collideRoad(g, es, i) ==
    IF i > Len(es) THEN g
    ELSE IF Abs(wrapZ(g.track, es[i].z - g.z)) < 300 /\ Abs(es[i].lane - g.x) < 2400
    THEN collideRoad([bumpRoad(g) EXCEPT !.speed = (g.speed * 7) \div 10, !.heat = g.heat + 8000],
                     es, i + 1)
    ELSE collideRoad(g, es, i + 1)

\* function handlePlayer(input, dt), on the segment under the player
playerRoad(g, es, dt, input, seg) ==
    collideRoad(
        scoreRoad(applyHeatRoad(advanceRoad(burnRoad(driftRoad(lavaRoad(offroadRoad(
            steerRoad(g, dt, input, seg)), dt, seg), dt, input), dt, input), dt), dt), dt),
        es, 1)

\* function decideStandard(e, seg); jitter is Math.random() - 0.5 (1/1000)
decideStandard(g, pickups, e, seg, jitter) ==
    IF e.type = "chaser" THEN clamp(g.x + 500, -14000, 14000)
    ELSE IF e.type = "blocker" THEN clamp(g.x + jitter * 3, -13000, 13000)
    ELSE IF e.type = "opportunist" /\ pickups # <<>>
    THEN clamp(pickups[1].lane + jitter * 4, -14000, 14000)
    ELSE clamp(seg.curve * 5, -10000, 10000)

\* updateEnemies(dt), lines 1194-1199: the enemy e steered towards the lane
\* desired and moved; sway is the lane change a hazard segment may cause
enemyMoveRoad(g, e, dt, desired, seg, sway) ==
    [e EXCEPT
       !.lane = @ + Trunc(clamp(desired - e.lane, -6000, 6000) * dt * 18, 10000)
                  + (IF seg.hazard THEN sway ELSE 0),
       !.speed = @ + Trunc(((g.speed * 9) \div 10 + 800 - e.speed) * 2 * dt, 10000),
       !.z = IF e.z + ((e.speed + Trunc(((g.speed * 9) \div 10 + 800 - e.speed) * 2 * dt, 10000)) * dt) \div 1000
                   > g.track.length
             THEN e.z + ((e.speed + Trunc(((g.speed * 9) \div 10 + 800 - e.speed) * 2 * dt, 10000)) * dt) \div 1000
                    - g.track.length
             ELSE e.z + ((e.speed + Trunc(((g.speed * 9) \div 10 + 800 - e.speed) * 2 * dt, 10000)) * dt) \div 1000]

\* function updateEnemies(dt), with the default enemy AI
updateEnemiesRoad(g, es, pickups, dt, rnd) ==
    [i \in 1..Len(es) |->
        enemyMoveRoad(g, es[i], dt,
                      decideStandard(g, pickups, es[i], findSegment(g.track, es[i].z), rnd.jitter),
                      findSegment(g.track, es[i].z), rnd.sway)]

\* function spawnEnemy(): draw.ahead is rand(600), draw.lane is
\* (rand(1) - 0.5) * 1.4, draw.type the archetype picked
spawnEnemyRoad(g, es, draw) ==
    Append(es, [z |-> IF g.z + 4000 + draw.ahead > g.track.length
                      THEN g.z + 4000 + draw.ahead - g.track.length
                      ELSE g.z + 4000 + draw.ahead,
                lane |-> draw.lane, speed |-> (g.speed * 8) \div 10 + 800,
                type |-> draw.type])

\* function spawnPickup(): draw.ahead is rand(800)
spawnPickupRoad(g, pickups, draw) ==
    Append(pickups, [z |-> IF g.z + 2000 + draw.ahead > g.track.length
                           THEN g.z + 2000 + draw.ahead - g.track.length
                           ELSE g.z + 2000 + draw.ahead,
                     lane |-> draw.lane, type |-> draw.type, gone |-> FALSE])

\* function collectPickup(p), on the game object
collectPickupRoad(g, p) ==
    CASE p.type = "coin"   -> addComboRoad([g EXCEPT !.score = @ + MulDiv(g.combo, 12000, 10000)], 4000)
      [] p.type = "cool"   -> [g EXCEPT !.heat = Max(0, @ - 30000)]
      [] p.type = "cell"   -> [g EXCEPT !.boost = clamp(@ + 40000, 0, 100000)]
      [] p.type = "shield" -> [g EXCEPT !.heat = Max(0, @ - 10000), !.speed = @ + 200]
      [] OTHER             -> g

\* updatePickups(dt), lines 1272-1277: the pickups from the i-th on; a
\* collected pickup has its z set to Infinity (gone)
RECURSIVE pickupLoopRoad(_, _)
pickupLoopRoad(W, i) ==
    IF i > Len(W.pickups) THEN W
    ELSE IF ~W.pickups[i].gone
            /\ Abs(wrapZ(W.g.track, W.pickups[i].z - W.g.z)) < 300
            /\ Abs(W.pickups[i].lane - W.g.x) < 2500
    THEN pickupLoopRoad([W EXCEPT !.g = collectPickupRoad(W.g, W.pickups[i]),
                                  !.pickups[i].gone = TRUE], i + 1)
    ELSE pickupLoopRoad(W, i + 1)

\* updatePickups(dt), lines 1278-1283: the spawn timer, then the filter that
\* drops the pickups beyond the track length
pickupTimerRoad(W, dt, draw) ==
    [W EXCEPT
       !.g.pickupTimer = IF @ - dt <= 0 /\ Len(W.pickups) < 4 THEN RoadCFG.pickupInterval ELSE @ - dt,
       !.pickups = SelectSeq(IF W.g.pickupTimer - dt <= 0 /\ Len(W.pickups) < 4
                             THEN spawnPickupRoad(W.g, W.pickups, draw) ELSE W.pickups,
                             LAMBDA p : ~p.gone /\ p.z <= W.g.track.length)]

\* function updatePickups(dt)
updatePickupsRoad(W, dt, draw) == pickupTimerRoad(pickupLoopRoad(W, 1), dt, draw)

\* handleLap(dt), line 1325
nearStartRoad(g) ==
    g.z >= g.track.length - RoadCFG.segmentLength * 2 \/ g.z <= RoadCFG.segmentLength * 2

\* handleLap(dt), lines 1327-1332: the lap counted
lapCountedRoad(g) ==
    IF g.lap + 1 > RoadTracks[g.mapIndex].laps
    THEN endRunRoad([g EXCEPT !.lap = @ + 1, !.score = @ + 30000 * (g.lap + 1)])
    ELSE [g EXCEPT !.lap = @ + 1, !.score = @ + 30000 * (g.lap + 1)]

\* function handleLap(dt)
handleLapRoad(g) ==
    IF nearStartRoad(g) /\ ~g.lapGate /\ g.speed > 100
    THEN [(IF g.state = "playing" /\ RoadTracks[g.mapIndex].laps # Endless THEN lapCountedRoad(g) ELSE g)
            EXCEPT !.lapGate = TRUE]
    ELSE IF ~nearStartRoad(g) THEN [g EXCEPT !.lapGate = FALSE]
    ELSE g

\* update(dt), lines 1076-1079: the enemy spawn timer
spawnTimerRoad(W, dt, draw) ==
    IF W.g.state # "playing" THEN W
    ELSE IF W.g.spawnTimer - dt <= 0 /\ Len(W.enemies) < 7
    THEN [W EXCEPT !.g.spawnTimer = RoadCFG.enemySpawnInterval,
                   !.enemies = spawnEnemyRoad(W.g, W.enemies, draw)]
    ELSE [W EXCEPT !.g.spawnTimer = @ - dt]

\* update(dt), lines 1070-1071: the player stepped to p, then the enemies
enemiesRoad(W, p, dt, rnd) ==
    [W EXCEPT !.g = [p EXCEPT !.mlClock = @ + dt],
              !.enemies = updateEnemiesRoad(p, W.enemies, W.pickups, dt, rnd)]

\* update(dt), lines 1072-1079: pickups, the lap gate and the spawn timer
restRoad(W, dt, rnd) ==
    spawnTimerRoad([updatePickupsRoad(W, dt, rnd.pickup) EXCEPT !.g = handleLapRoad(@)], dt, rnd.enemy)

\* update(dt), lines 1068-1079, on the input of the frame
stepRoad(W, dt, input, rnd) ==
    restRoad(enemiesRoad(W, playerRoad([W.g EXCEPT !.time = @ + dt], W.enemies, dt, input,
                                       findSegment(W.g.track, W.g.z)),
                         dt, rnd),
             dt, rnd)

\* function update(dt)
updateRoad(W, dt, keys, rnd) ==
    IF W.g.state \in {"menu", "paused", "over"} THEN W
    ELSE stepRoad(W, dt,
                  IF W.g.state = "attract" THEN autoInputRoad(W.g.time + dt, rnd.boost) ELSE keys,
                  rnd)

\* function loop(): t is now(), in ms
loopRoad(W, t, keys, rnd) ==
    updateRoad([W EXCEPT !.g.lastFrame = t], clamp(t - W.g.lastFrame, 0, 50), keys, rnd)

\* const game = { ... }, then init(): selectMap(0); no track is built before
\* the first run
bootRoad(now) ==
    [state |-> "menu", mapIndex |-> 1,
     track |-> [sections |-> << >>, count |-> 0, length |-> 0, laps |-> 0],
     z |-> 0, x |-> 0, speed |-> 0, lap |-> 1, time |-> 0, score |-> 0,
     combo |-> 10000, comboTimer |-> 0, driftMeter |-> 0, boost |-> 0, heat |-> 0,
     overheat |-> FALSE, spawnTimer |-> 0, pickupTimer |-> 0,
     lastFrame |-> now, mlClock |-> 0, lapGate |-> FALSE]

\* function spawnInitialEnemies()
spawnInitialEnemies(g, draws) ==
    spawnEnemyRoad(g, spawnEnemyRoad(g, spawnEnemyRoad(g, <<>>, draws[1]), draws[2]), draws[3])

\* buildWorld(), lines 986-994: the game object on the track built
resetRoad(g, state, track) ==
    [g EXCEPT !.state = state, !.track = track,
              !.z = 0, !.x = 0, !.speed = 0, !.lap = 1, !.time = 0, !.score = 0,
              !.combo = 10000, !.comboTimer = 0, !.driftMeter = 0, !.boost = 0,
              !.heat = 0, !.overheat = FALSE,
              !.spawnTimer = RoadCFG.enemySpawnInterval,
              !.pickupTimer = RoadCFG.pickupInterval, !.lapGate = FALSE]

\* buildWorld() for the game object reset
worldRoad(W, g, draws) ==
    [W EXCEPT !.g = g, !.enemies = spawnInitialEnemies(g, draws.enemies), !.pickups = <<>>]

\* function buildWorld(), on the state set by startRun() or startAttract()
buildWorldRoad(W, state, draws) ==
    worldRoad(W, resetRoad(W.g, state, buildTrackRoad(RoadTracks[W.g.mapIndex], draws.rolls)),
              draws)

\* function startRun()
startRunRoad(W, draws) == buildWorldRoad(W, "playing", draws)

\* function startAttract()
startAttractRoad(W, draws) == buildWorldRoad(W, "attract", draws)

---------------------------------------------------------------------------
(* src/app.js: keys, random draws, and the sessions explored.                *)
(* A session opens with a rehearsed script (a map, a start, keys held for a  *)
(* number of frames) played from the booted page, and is then explored       *)
(* freely for MaxFrames frames.                                              *)

\* readInput(): key combinations
Coast      == Input(0, FALSE, FALSE, FALSE, FALSE)
Brake      == Input(0, FALSE, TRUE, FALSE, FALSE)
Throttle   == Input(0, TRUE, FALSE, FALSE, FALSE)
DriftAhead == Input(0, TRUE, FALSE, TRUE, FALSE)
DriftLeft  == Input(1000, TRUE, FALSE, TRUE, FALSE)
BoostRight == Input(-1000, TRUE, FALSE, FALSE, TRUE)
BoostAhead == Input(0, TRUE, FALSE, FALSE, TRUE)

Keys == {Brake, DriftLeft, BoostRight}

\* Math.random() draws of one frame
Draw(jitter, rival, pickup, respawn, boost) ==
    [jitter |-> jitter, rival |-> rival, pickup |-> pickup, respawn |-> respawn, boost |-> boost]

Place(x, z, type) == [pos |-> Vec(x, 0, z), type |-> type]
Respawn(x, z, yaw) == [pos |-> Vec(x, 0, z), yaw |-> yaw]

CalmDraw == Draw(<<0, 0, 0>>, Place(0, -1800, "racer"), Vec(1500, 0, -1500),
                 Respawn(0, 3000, 0), FALSE)

\* as CalmDraw, but the respawn search ends next to the place of the coins
CoinsDraw == Draw(<<0, 0, 0>>, Place(0, -1800, "racer"), Vec(1500, 0, -1500),
                  Respawn(1500, -1600, 0), FALSE)

WildDraw == Draw(<<999, 999, 999>>, Place(2000, 0, "hunter"), Vec(0, 0, 200),
                 Respawn(-2900, 0, 4712), TRUE)

\* the respawn search ends beside the second ramp of the crater, heading
\* across its low end, and the third rival is spawned on that low end
RampDraw == Draw(<<0, 0, 0>>, Place(-2289, -515, "racer"), Vec(1500, 0, -1500),
                 Respawn(-2236, -556, 5383), FALSE)

Draws == {CalmDraw, WildDraw}

\* the draws of startRun: two rivals and a coin
CalmStart == [rival1 |-> Place(0, -1700, "racer"), rival2 |-> Place(300, -2000, "blocker"),
              pickup |-> Vec(1500, 0, -1500)]

WildStart == [rival1 |-> Place(2000, 0, "hunter"), rival2 |-> Place(0, 3000, "racer"),
              pickup |-> Vec(0, 0, 200)]

StartDraws == {CalmStart, WildStart}

\* gaps between two animation frames (ms): a clock step back, a 50 Hz frame,
\* a stalled tab
FrameGaps == {-20, 20, 1000}

\* the gap between two frames of a script (ms)
ScriptGap == CFG.dtMax

\* the time stamp at which the page is booted (ms)
BootStamp == 1000

\* script steps
Pick(idx)   == [op |-> "map", n |-> 1, idx |-> idx, mode |-> "player", keys |-> Coast]
BeginWith(mode, draws) ==
    [op |-> "start", n |-> 1, idx |-> 1, mode |-> mode, keys |-> Coast, draws |-> draws]
Begin(mode) == BeginWith(mode, CalmStart)
HoldWith(n, keys, rnd) ==
    [op |-> "frames", n |-> n, idx |-> 1, mode |-> "player", keys |-> keys, rnd |-> rnd]
Hold(n, keys) == HoldWith(n, keys, CalmDraw)

\* the rest of a script after one step of its head
Advance(sc) ==
    IF Head(sc).n > 1 THEN <<[Head(sc) EXCEPT !.n = @ - 1]>> \o Tail(sc) ELSE Tail(sc)

Plan(perk, sc) == [perk |-> perk, script |-> sc]

\* n short drifts: three frames of held drift, one frame of release
RECURSIVE Taps(_)
Taps(n) == IF n = 0 THEN <<>> ELSE <<Hold(3, DriftAhead), Hold(1, Throttle)>> \o Taps(n - 1)

Plans == {
    Plan("none", <<>>),
    Plan("boost", <<>>),
    Plan("cool", <<>>),
    \* the drift meter filled by 59 frames of held drift
    Plan("boost", <<Begin("player"), Hold(60, DriftLeft)>>),
    \* full throttle to the wall of the small arena
    Plan("none", <<Pick(2), Begin("player"), Hold(83, Throttle)>>),
    \* a turn on the way to the wall: an oblique hit
    Plan("grip", <<Begin("player"), Hold(50, Throttle), Hold(20, BoostRight), Hold(35, Throttle)>>),
    \* waiting on the start line until the first rival arrives
    Plan("none", <<Begin("player"), Hold(62, Coast)>>),
    \* caught by a rival at the wall; the rival runs on into the wall
    Plan("none", <<Begin("player"), Hold(223, Throttle)>>),
    \* a full drift released, then a second drift under way: boost near its cap
    Plan("boost", <<Begin("player"), Hold(60, DriftAhead), Hold(1, Throttle), Hold(30, DriftAhead)>>),
    \* a string of short drifts: combo near its cap
    Plan("none", <<Begin("player"), Hold(1, Coast)>> \o Taps(23)),
    \* the attract loop
    Plan("magnet", <<Begin("demo"), Hold(45, Coast)>>),
    \* 49 s of driving with both lists full at the end, then a respawn next to
    \* the coins
    Plan("none", <<BeginWith("player", WildStart), Hold(985, Throttle),
                   HoldWith(90, Throttle, CoinsDraw)>>),
    \* caught on the start line and respawned beside a ramp; 8 s into the run
    \* the player crosses the low end of the ramp where the third rival spawns
    Plan("none", <<Begin("player"), HoldWith(150, Coast, RampDraw),
                   HoldWith(14, Throttle, RampDraw)>>) }

MaxFrames == 2

\* the page of part_000 after boot(), with the opening still to be played
SplinePage(perk, sc) ==
    [g |-> bootSpline(perk), rivals |-> <<>>, pickups |-> <<>>, cooled |-> 0,
     burn |-> [fired |-> FALSE, before |-> 0, after |-> 0],
     clock |-> BootStamp, script |-> sc, frames |-> 0]

\* the page of part_001:9 after init(), with the opening still to be played
SectionPage(sc) ==
    [g |-> bootSection(BootStamp), enemies |-> <<>>, pickups |-> <<>>, input |-> Coast,
     odo |-> 0, lapped |-> <<>>,
     clock |-> BootStamp, script |-> sc, frames |-> 0]

\* the page of part_001:3236 after boot(), with the opening still to be played
ArenaPage(perk, sc) ==
    [g |-> bootArena(perk), rivals |-> <<>>, pickups |-> <<>>, moveVel |-> Zero3, hits |-> <<>>,
     rivalBounces |-> <<>>,
     clock |-> BootStamp, script |-> sc, frames |-> 0]

\* the page of part_001:2324 after boot(), with the opening still to be played
Arena2Page(perk, sc) ==
    [g |-> bootA2(perk), rivals |-> <<>>, pickups |-> <<>>,
     clock |-> BootStamp, script |-> sc, frames |-> 0]

RoadPage(sc) ==
    [g |-> bootRoad(BootStamp), enemies |-> <<>>, pickups |-> <<>>,
     clock |-> BootStamp, script |-> sc, frames |-> 0]

TheWorld == World(game, activeRivals, activePickups, bounces, nears, intent)

Install(W) ==
    /\ game' = W.g
    /\ activeRivals' = W.rivals
    /\ activePickups' = W.pickups
    /\ bounces' = W.bounces
    /\ taken' = W.taken
    /\ nears' = W.nears
    /\ intent' = W.intent

\* the page after boot(), before its first animation frame
Init ==
    \E plan \in Plans :
        /\ game = bootGame(plan.perk)
        /\ activeRivals = <<>>
        /\ activePickups = <<>>
        /\ bounces = <<>>
        /\ taken = {}
        /\ nears = NoNears
        /\ intent = Input(0, FALSE, FALSE, FALSE, FALSE)
        /\ clock = BootStamp
        /\ script = plan.script
        /\ frames = 0
        /\ spline = SplinePage("none", <<>>)
        /\ section = SectionPage(<<>>)
        /\ arena = ArenaPage("none", <<>>)
        /\ arena2 = Arena2Page("none", <<>>)
    /\ road = RoadPage(<<>>)
    /\ built = NoSample

Scripted(op) == script # <<>> /\ Head(script).op = op
Free == script = <<>>

\* #startBtn, #watchDemo, #playAgain: startRun('player' | 'demo')
StartRun ==
    /\ \/ /\ Free
          /\ \E mode \in {"player", "demo"}, draws \in StartDraws :
                Install(startRun(TheWorld, mode, draws))
          /\ UNCHANGED script
       \/ /\ Scripted("start")
          /\ Install(startRun(TheWorld, Head(script).mode, Head(script).draws))
          /\ script' = Advance(script)
    /\ UNCHANGED <<clock, frames>>
    /\ UNCHANGED variants

\* #restartPlay: startRun(game.mode)
RestartRun ==
    /\ Free
    /\ game.state = "paused"
    /\ \E draws \in StartDraws : Install(startRun(TheWorld, game.mode, draws))
    /\ UNCHANGED <<clock, script, frames>>
    /\ UNCHANGED variants

\* #pauseBtn, Escape while playing
PauseGame ==
    /\ Free
    /\ game.state = "playing"
    /\ game' = pauseGame(game)
    /\ UNCHANGED <<activeRivals, activePickups, bounces, taken, nears, intent, clock, script, frames>>
    /\ UNCHANGED variants

\* #resumeBtn, #resumePlay, Escape while paused
ResumeGame ==
    /\ Free
    /\ game.state = "paused"
    /\ game' = resumeGame(game)
    /\ UNCHANGED <<activeRivals, activePickups, bounces, taken, nears, intent, clock, script, frames>>
    /\ UNCHANGED variants

\* #backToMenu, #menuReturn (shown on the pause overlay)
GotoMenu ==
    /\ Free
    /\ game.state = "paused"
    /\ game' = gotoMenu(game)
    /\ UNCHANGED <<activeRivals, activePickups, bounces, taken, nears, intent, clock, script, frames>>
    /\ UNCHANGED variants

\* a map card of the menu panel
SelectMap ==
    /\ game.state = "menu"
    /\ \/ /\ Free
          /\ \E idx \in 1..Len(MAPS) : idx # game.map /\ game' = selectMap(game, idx)
          /\ UNCHANGED script
       \/ /\ Scripted("map")
          /\ game' = selectMap(game, Head(script).idx)
          /\ script' = Advance(script)
    /\ UNCHANGED <<activeRivals, activePickups, bounces, taken, nears, intent, clock, frames>>
    /\ UNCHANGED variants

\* #resetAI (settings overlay of the menu)
ResetPerk ==
    /\ Free
    /\ game.state = "menu"
    /\ game.perk # "none"
    /\ game' = [game EXCEPT !.perk = "none"]
    /\ UNCHANGED <<activeRivals, activePickups, bounces, taken, nears, intent, clock, script, frames>>
    /\ UNCHANGED variants

\* a frame about to be delivered: its time stamp, the keys held, its draws
Delivery(now, keys, rnd) == [now |-> now, keys |-> keys, rnd |-> rnd]

\* the frames that can come next: the next frame of the script, or any gap,
\* keys and draws, or a stamp that is not a number
Deliveries ==
    IF Free
    THEN {Delivery(Num(clock + gap), keys, rnd) : gap \in FrameGaps, keys \in Keys, rnd \in Draws}
           \cup {Delivery(NaN, Coast, CalmDraw)}
    ELSE {Delivery(Num(clock + ScriptGap), Head(script).keys, Head(script).rnd)}

\* requestAnimationFrame(tick)
Frame ==
    /\ IF Free THEN frames < MaxFrames ELSE Head(script).op = "frames"
    /\ \E d \in Deliveries :
          /\ Install(tick(TheWorld, d.now, d.keys, d.rnd))
          /\ clock' = IF d.now.k = "nan" THEN clock ELSE d.now.v
    /\ frames' = IF Free THEN frames + 1 ELSE frames
    /\ script' = IF Free THEN script ELSE Advance(script)
    /\ UNCHANGED variants

Next ==
    \/ StartRun
    \/ RestartRun
    \/ PauseGame
    \/ ResumeGame
    \/ GotoMenu
    \/ SelectMap
    \/ ResetPerk
    \/ Frame

Spec == Init /\ [][Next]_vars

---------------------------------------------------------------------------
(* src/unnamed/part_000: the sessions explored *)

\* Math.random() draws of one frame: the boost key of the attract loop, a
\* racer's lane target, the rival and the pickup a timer may spawn
SplineDraw(boost, wander, rival, pickup) ==
    [boost |-> boost, wander |-> wander, rival |-> rival, pickup |-> pickup]

\* a spawn: distance ahead beyond the fixed offset, lane, type
Ahead(ahead, lane, type) == [ahead |-> ahead, lane |-> lane, type |-> type]

SplineCalm == SplineDraw(FALSE, 500, Ahead(8000, 0, "racer"), Ahead(16000, 0, "coin"))
SplineWild == SplineDraw(TRUE, 999, Ahead(0, -1100, "hunter"), Ahead(0, 1199, "cool"))
SplineDraws == {SplineCalm, SplineWild}

\* the draws of buildWorld: two rivals and a pickup
SplineStart == [rival1 |-> Ahead(0, 0, "hunter"), rival2 |-> Ahead(15999, 1099, "blocker"),
                pickup |-> Ahead(31999, -1200, "shield")]

\* the frames of the rehearsed drive over the two laps of the Ember Circuit
FinishFrames == 228

SplinePlans == {
    SplinePage("none", <<>>),
    SplinePage("cool", <<>>),
    \* parked in the lava shoulder until the rivals come round again
    SplinePage("none", <<Begin("player"), Hold(30, Throttle), Hold(250, Brake)>>),
    \* the two laps of the Ember Circuit under throttle
    SplinePage("grip", <<Begin("player"), Hold(FinishFrames, Throttle)>>),
    \* a drift charged at speed, then the boost burnt under throttle
    SplinePage("boost", <<Begin("player"), Hold(60, Throttle), Hold(40, DriftAhead),
                          Hold(25, BoostAhead)>>),
    \* shield up, running into the hunter ahead at full throttle
    SplinePage("shield", <<Begin("player"), Hold(80, Throttle)>>) }

SplineInit ==
    /\ spline \in SplinePlans
    /\ game = bootGame("none")
    /\ activeRivals = <<>>
    /\ activePickups = <<>>
    /\ bounces = <<>>
    /\ taken = {}
    /\ nears = NoNears
    /\ intent = Input(0, FALSE, FALSE, FALSE, FALSE)
    /\ clock = BootStamp
    /\ script = <<>>
    /\ frames = 0
    /\ section = SectionPage(<<>>)
    /\ arena = ArenaPage("none", <<>>)
    /\ arena2 = Arena2Page("none", <<>>)
    /\ road = RoadPage(<<>>)
    /\ built = NoSample

SplineScripted(op) == spline.script # <<>> /\ Head(spline.script).op = op
SplineFree == spline.script = <<>>

\* #startBtn, #watchDemo, #playAgain: startRun('player' | 'demo')
SplineStartRun ==
    /\ \/ /\ SplineFree
          /\ \E mode \in {"player", "demo"} : spline' = startRunSpline(spline, mode, SplineStart)
       \/ /\ SplineScripted("start")
          /\ spline' = [startRunSpline(spline, Head(spline.script).mode, SplineStart)
                          EXCEPT !.script = Advance(spline.script)]
    /\ UNCHANGED besideSpline

\* #pauseBtn, Escape while playing
SplinePause ==
    /\ SplineFree
    /\ spline.g.state = "playing"
    /\ spline' = [spline EXCEPT !.g.state = "paused"]
    /\ UNCHANGED besideSpline

\* #resumeBtn, #resumePlay, Escape while paused
SplineResume ==
    /\ SplineFree
    /\ spline.g.state = "paused"
    /\ spline' = [spline EXCEPT !.g.state = "playing"]
    /\ UNCHANGED besideSpline

\* #backToMenu, #menuReturn
SplineGotoMenu ==
    /\ SplineFree
    /\ spline.g.state \in {"paused", "over"}
    /\ spline' = [spline EXCEPT !.g.state = "menu"]
    /\ UNCHANGED besideSpline

\* the frames that can come next
SplineDeliveries ==
    IF SplineFree
    THEN {Delivery(Num(spline.clock + gap), keys, rnd) :
              gap \in FrameGaps, keys \in Keys, rnd \in SplineDraws}
           \cup {Delivery(NaN, Coast, SplineCalm)}
    ELSE {Delivery(Num(spline.clock + ScriptGap), Head(spline.script).keys, SplineCalm)}

\* requestAnimationFrame(tick)
SplineFrame ==
    /\ IF SplineFree THEN spline.frames < MaxFrames ELSE Head(spline.script).op = "frames"
    /\ \E d \in SplineDeliveries :
          spline' = [tickSpline(spline, d.now, d.keys, d.rnd) EXCEPT
                       !.clock = IF d.now.k = "nan" THEN @ ELSE d.now.v,
                       !.frames = IF SplineFree THEN @ + 1 ELSE @,
                       !.script = IF SplineFree THEN @ ELSE Advance(@)]
    /\ UNCHANGED besideSpline

SplineNext ==
    \/ SplineStartRun
    \/ SplinePause
    \/ SplineResume
    \/ SplineGotoMenu
    \/ SplineFrame

SplineSpec == SplineInit /\ [][SplineNext]_vars

---------------------------------------------------------------------------
(* src/unnamed/part_001, lines 9-621: the sessions explored *)

\* Math.random() draws of one frame: the boost key of the attract loop, the
\* lane wander of the rivals, the rival hidden by its 1-in-1000 draw (0: none),
\* the pickup the timer may spawn
SectionDraw(boost, wander, vanish, pickup) ==
    [boost |-> boost, wander |-> wander, vanish |-> vanish, pickup |-> pickup]

SectionCalm == SectionDraw(FALSE, 0, 0, Ahead(20000, 0, "coin"))
SectionWild == SectionDraw(TRUE, 499, 1, Ahead(0, -999, "cell"))
SectionDraws == {SectionCalm, SectionWild}

\* the draws of buildWorld: three rivals
SectionStart == << Ahead(0, 0, "hunter"), Ahead(20000, 900, "blocker"),
                   Ahead(39999, -1000, "racer") >>

\* gaps between two animation frames (ms): a 50 Hz frame, a stalled tab
SectionGaps == {20, 1000}

SectionPlans == {
    SectionPage(<<>>),
    \* a drift charged past the payout threshold and released
    SectionPage(<<Begin("player"), Hold(10, DriftAhead), Hold(1, Throttle)>>),
    \* the attract loop on the canyon track
    SectionPage(<<Pick(2), Begin("demo"), Hold(30, Coast)>>) }

SectionInit ==
    /\ section \in SectionPlans
    /\ arena = ArenaPage("none", <<>>)
    /\ arena2 = Arena2Page("none", <<>>)
    /\ road = RoadPage(<<>>)
    /\ built = NoSample
    /\ spline = SplinePage("none", <<>>)
    /\ game = bootGame("none")
    /\ activeRivals = <<>>
    /\ activePickups = <<>>
    /\ bounces = <<>>
    /\ taken = {}
    /\ nears = NoNears
    /\ intent = Input(0, FALSE, FALSE, FALSE, FALSE)
    /\ clock = BootStamp
    /\ script = <<>>
    /\ frames = 0

SectionScripted(op) == section.script # <<>> /\ Head(section.script).op = op
SectionFree == section.script = <<>>

\* #startBtn, #restartPlay, #playAgain: startRun()
SectionStartRun ==
    /\ \/ /\ SectionFree
          /\ section.g.state \in {"menu", "paused", "over"}
          /\ section' = startRunSection(section, SectionStart)
       \/ /\ SectionScripted("start")
          /\ Head(section.script).mode = "player"
          /\ section' = [startRunSection(section, SectionStart)
                           EXCEPT !.script = Advance(section.script)]
    /\ UNCHANGED besideSection

\* #watchDemo: startAttract()
SectionStartAttract ==
    /\ \/ /\ SectionFree
          /\ section.g.state = "menu"
          /\ section' = startAttractSection(section, SectionStart)
       \/ /\ SectionScripted("start")
          /\ Head(section.script).mode = "demo"
          /\ section' = [startAttractSection(section, SectionStart)
                           EXCEPT !.script = Advance(section.script)]
    /\ UNCHANGED besideSection

\* #pauseBtn, Escape while playing
SectionPause ==
    /\ SectionFree
    /\ section.g.state = "playing"
    /\ section' = [section EXCEPT !.g.state = "paused"]
    /\ UNCHANGED besideSection

\* #resumeBtn, #resumePlay
SectionResume ==
    /\ SectionFree
    /\ section.g.state = "paused"
    /\ section' = [section EXCEPT !.g.state = "playing"]
    /\ UNCHANGED besideSection

\* #backToMenu, #menuReturn
SectionGotoMenu ==
    /\ SectionFree
    /\ section.g.state \in {"paused", "over"}
    /\ section' = [section EXCEPT !.g.state = "menu"]
    /\ UNCHANGED besideSection

\* a map card of the menu: selectMap(idx)
SectionSelectMap ==
    /\ \/ /\ SectionFree
          /\ section.g.state = "menu"
          /\ \E idx \in 1..Len(SectionTracks) :
                /\ idx # section.g.mapIndex
                /\ section' = [section EXCEPT !.g.mapIndex = idx]
       \/ /\ SectionScripted("map")
          /\ section' = [section EXCEPT !.g.mapIndex = Head(section.script).idx,
                                        !.script = Advance(section.script)]
    /\ UNCHANGED besideSection

\* the frames that can come next
SectionDeliveries ==
    IF SectionFree
    THEN {Delivery(section.clock + gap, keys, rnd) :
              gap \in SectionGaps, keys \in Keys, rnd \in SectionDraws}
    ELSE {Delivery(section.clock + SectionCFG.dtClamp, Head(section.script).keys, SectionCalm)}

\* requestAnimationFrame(raf)
SectionFrame ==
    /\ IF SectionFree THEN section.frames < MaxFrames ELSE Head(section.script).op = "frames"
    /\ \E d \in SectionDeliveries :
          section' = [rafSection(section, d.now, d.keys, d.rnd) EXCEPT
                        !.clock = d.now,
                        !.frames = IF SectionFree THEN @ + 1 ELSE @,
                        !.script = IF SectionFree THEN @ ELSE Advance(@)]
    /\ UNCHANGED besideSection

SectionNext ==
    \/ SectionStartRun
    \/ SectionStartAttract
    \/ SectionPause
    \/ SectionResume
    \/ SectionGotoMenu
    \/ SectionSelectMap
    \/ SectionFrame

SectionSpec == SectionInit /\ [][SectionNext]_vars

---------------------------------------------------------------------------
(* src/unnamed/part_001, lines 3236-4679: the sessions explored *)

\* Math.random() draws of one frame: the boost key of the attract loop, the
\* jitter of the rivals' acceleration, the rival and the pickup a timer may
\* spawn, the contact normal of two coinciding vehicles
ArenaDraw(boost, jitter, rival, pickup, normal) ==
    [boost |-> boost, jitter |-> jitter, rival |-> rival, pickup |-> pickup, normal |-> normal]

ArenaCalm == ArenaDraw(FALSE, 0, Place(0, -1800, "racer"),
                       [pos |-> Vec(1500, 0, -1500), type |-> "coin"], Vec(500, 0, 0))
ArenaWild == ArenaDraw(TRUE, 999, Place(2000, 0, "hunter"),
                       [pos |-> Vec(0, 0, 200), type |-> "cool"], Vec(-300, 0, 400))
ArenaDraws == {ArenaCalm, ArenaWild}

\* the draws of buildArena: two rivals and a pickup
ArenaStart == [rival1 |-> Place(2000, 0, "hunter"), rival2 |-> Place(0, -2500, "blocker"),
               pickup |-> [pos |-> Vec(1500, 0, 1500), type |-> "shield"]]

ArenaPlans == {
    ArenaPage("none", <<>>),
    ArenaPage("shield", <<>>),
    \* a full drift charged under throttle, then released
    ArenaPage("none", <<Begin("player"), Hold(60, DriftAhead), Hold(2, Throttle)>>),
    \* boost cells burnt on the way to the wall of the small arena
    ArenaPage("boost", <<Pick(2), Begin("player"), Hold(20, DriftLeft), Hold(40, BoostRight)>>),
    \* the attract loop
    ArenaPage("magnet", <<Begin("demo"), Hold(45, Coast)>>),
    \* waiting on the start line, shield up, until the hunter arrives
    ArenaPage("shield", <<Begin("player"), Hold(110, Coast)>>),
    \* the same wait without a shield, left off just before the hunter arrives
    ArenaPage("none", <<Begin("player"), Hold(107, Coast)>>),
    \* shield up, full throttle towards the wall and rolling out short of it,
    \* the rivals in pursuit: one of them runs on into the wall
    ArenaPage("shield", <<Begin("player"), Hold(145, Throttle), Hold(15, Coast)>>),
    \* full throttle towards the wall and a long roll-out that stops just short
    \* of it, the hunter closing in from behind
    ArenaPage("none", <<Begin("player"), Hold(136, Throttle), Hold(60, Coast)>>) }

ArenaInit ==
    /\ arena \in ArenaPlans
    /\ arena2 = Arena2Page("none", <<>>)
    /\ road = RoadPage(<<>>)
    /\ built = NoSample
    /\ spline = SplinePage("none", <<>>)
    /\ section = SectionPage(<<>>)
    /\ game = bootGame("none")
    /\ activeRivals = <<>>
    /\ activePickups = <<>>
    /\ bounces = <<>>
    /\ taken = {}
    /\ nears = NoNears
    /\ intent = Input(0, FALSE, FALSE, FALSE, FALSE)
    /\ clock = BootStamp
    /\ script = <<>>
    /\ frames = 0

ArenaScripted(op) == arena.script # <<>> /\ Head(arena.script).op = op
ArenaFree == arena.script = <<>>

\* #startBtn, #watchDemo: startRun('player' | 'demo')
ArenaStartRun ==
    /\ \/ /\ ArenaFree
          /\ arena.g.state = "menu"
          /\ \E mode \in {"player", "demo"} : arena' = startRunArena(arena, mode, ArenaStart)
       \/ /\ ArenaScripted("start")
          /\ arena' = [startRunArena(arena, Head(arena.script).mode, ArenaStart)
                         EXCEPT !.script = Advance(arena.script)]
    /\ UNCHANGED besideArena

\* #restartPlay: startRun(game.mode)
ArenaRestartRun ==
    /\ ArenaFree
    /\ arena.g.state = "paused"
    /\ arena' = startRunArena(arena, arena.g.mode, ArenaStart)
    /\ UNCHANGED besideArena

\* #pauseBtn, Escape while playing
ArenaPause ==
    /\ ArenaFree
    /\ arena.g.state = "playing"
    /\ arena' = [arena EXCEPT !.g.state = "paused"]
    /\ UNCHANGED besideArena

\* #resumeBtn, #resumePlay, Escape while paused
ArenaResume ==
    /\ ArenaFree
    /\ arena.g.state = "paused"
    /\ arena' = [arena EXCEPT !.g.state = "playing"]
    /\ UNCHANGED besideArena

\* #backToMenu
ArenaGotoMenu ==
    /\ ArenaFree
    /\ arena.g.state = "paused"
    /\ arena' = [arena EXCEPT !.g.state = "menu"]
    /\ UNCHANGED besideArena

\* a map card of the menu: selectMap(idx)
ArenaSelectMap ==
    /\ \/ /\ ArenaFree
          /\ arena.g.state = "menu"
          /\ \E idx \in 1..Len(ArenaMaps) :
                /\ idx # arena.g.map
                /\ arena' = [arena EXCEPT !.g.map = idx]
       \/ /\ ArenaScripted("map")
          /\ arena' = [arena EXCEPT !.g.map = Head(arena.script).idx,
                                    !.script = Advance(arena.script)]
    /\ UNCHANGED besideArena

\* the frames that can come next
ArenaDeliveries ==
    IF ArenaFree
    THEN {Delivery(Num(arena.clock + gap), keys, rnd) :
              gap \in FrameGaps, keys \in Keys, rnd \in ArenaDraws}
           \cup {Delivery(NaN, Coast, ArenaCalm)}
    ELSE {Delivery(Num(arena.clock + ArenaCFG.dtMax), Head(arena.script).keys, ArenaCalm)}

\* requestAnimationFrame(tick)
ArenaFrame ==
    /\ IF ArenaFree THEN arena.frames < MaxFrames ELSE Head(arena.script).op = "frames"
    /\ \E d \in ArenaDeliveries :
          arena' = [tickArena(arena, d.now, d.keys, d.rnd) EXCEPT
                      !.clock = IF d.now.k = "nan" THEN @ ELSE d.now.v,
                      !.frames = IF ArenaFree THEN @ + 1 ELSE @,
                      !.script = IF ArenaFree THEN @ ELSE Advance(@)]
    /\ UNCHANGED besideArena

ArenaNext ==
    \/ ArenaStartRun
    \/ ArenaRestartRun
    \/ ArenaPause
    \/ ArenaResume
    \/ ArenaGotoMenu
    \/ ArenaSelectMap
    \/ ArenaFrame

ArenaSpec == ArenaInit /\ [][ArenaNext]_vars

---------------------------------------------------------------------------
(* src/unnamed/part_001, lines 2324-3214: the sessions explored.  The draws  *)
(* are those of the arena of lines 3236-4679.                                *)

Arena2Plans == {
    Arena2Page("none", <<>>),
    Arena2Page("shield", <<>>),
    \* waiting on the start line, in the lava of the crater's centre
    Arena2Page("none", <<Begin("player"), Hold(60, Coast)>>),
    Arena2Page("cool", <<Begin("player"), Hold(38, Coast)>>),
    \* a drift charged under throttle, then released
    Arena2Page("boost", <<Begin("player"), Hold(20, DriftAhead), Hold(2, Throttle)>>),
    \* the small arena, from the start line to the wall
    Arena2Page("shield", <<Pick(2), Begin("player"), Hold(28, Throttle)>>),
    \* the attract loop
    Arena2Page("magnet", <<Begin("demo"), Hold(25, Coast)>>) }

Arena2Init ==
    /\ arena2 \in Arena2Plans
    /\ road = RoadPage(<<>>)
    /\ built = NoSample
    /\ arena = ArenaPage("none", <<>>)
    /\ spline = SplinePage("none", <<>>)
    /\ section = SectionPage(<<>>)
    /\ game = bootGame("none")
    /\ activeRivals = <<>>
    /\ activePickups = <<>>
    /\ bounces = <<>>
    /\ taken = {}
    /\ nears = NoNears
    /\ intent = Input(0, FALSE, FALSE, FALSE, FALSE)
    /\ clock = BootStamp
    /\ script = <<>>
    /\ frames = 0

Arena2Scripted(op) == arena2.script # <<>> /\ Head(arena2.script).op = op
Arena2Free == arena2.script = <<>>

\* #startBtn, #watchDemo: startRun('player' | 'demo')
Arena2StartRun ==
    /\ \/ /\ Arena2Free
          /\ arena2.g.state = "menu"
          /\ \E mode \in {"player", "demo"} : arena2' = startRunA2(arena2, mode, ArenaStart)
       \/ /\ Arena2Scripted("start")
          /\ arena2' = [startRunA2(arena2, Head(arena2.script).mode, ArenaStart)
                          EXCEPT !.script = Advance(arena2.script)]
    /\ UNCHANGED besideArena2

\* #restartPlay: startRun(game.mode)
Arena2RestartRun ==
    /\ Arena2Free
    /\ arena2.g.state = "paused"
    /\ arena2' = startRunA2(arena2, arena2.g.mode, ArenaStart)
    /\ UNCHANGED besideArena2

\* #playAgain on the game-over overlay: startRun('player')
Arena2PlayAgain ==
    /\ Arena2Free
    /\ arena2.g.state = "over"
    /\ arena2' = startRunA2(arena2, "player", ArenaStart)
    /\ UNCHANGED besideArena2

\* #pauseBtn, Escape while playing: pauseGame()
Arena2Pause ==
    /\ Arena2Free
    /\ arena2.g.state = "playing"
    /\ arena2' = [arena2 EXCEPT !.g.state = "paused"]
    /\ UNCHANGED besideArena2

\* #resumeBtn, #resumePlay, Escape while paused: resumeGame()
Arena2Resume ==
    /\ Arena2Free
    /\ arena2.g.state = "paused"
    /\ arena2' = [arena2 EXCEPT !.g.state = "playing"]
    /\ UNCHANGED besideArena2

\* #backToMenu, #menuReturn: gotoMenu()
Arena2GotoMenu ==
    /\ Arena2Free
    /\ arena2.g.state \in {"paused", "over"}
    /\ arena2' = [arena2 EXCEPT !.g.state = "menu"]
    /\ UNCHANGED besideArena2

\* a map card of the menu: selectMap(idx)
Arena2SelectMap ==
    /\ \/ /\ Arena2Free
          /\ arena2.g.state = "menu"
          /\ \E idx \in 1..Len(A2Maps) :
                /\ idx # arena2.g.map
                /\ arena2' = [arena2 EXCEPT !.g.map = idx]
       \/ /\ Arena2Scripted("map")
          /\ arena2' = [arena2 EXCEPT !.g.map = Head(arena2.script).idx,
                                      !.script = Advance(arena2.script)]
    /\ UNCHANGED besideArena2

\* the frames that can come next
Arena2Deliveries ==
    IF Arena2Free
    THEN {Delivery(Num(arena2.clock + gap), keys, rnd) :
              gap \in FrameGaps, keys \in Keys, rnd \in ArenaDraws}
           \cup {Delivery(NaN, Coast, ArenaCalm)}
    ELSE {Delivery(Num(arena2.clock + A2CFG.dtMax), Head(arena2.script).keys, ArenaCalm)}

\* requestAnimationFrame(tick)
Arena2Frame ==
    /\ IF Arena2Free THEN arena2.frames < MaxFrames ELSE Head(arena2.script).op = "frames"
    /\ \E d \in Arena2Deliveries :
          arena2' = [tickA2(arena2, d.now, d.keys, d.rnd) EXCEPT
                       !.clock = IF d.now.k = "nan" THEN @ ELSE d.now.v,
                       !.frames = IF Arena2Free THEN @ + 1 ELSE @,
                       !.script = IF Arena2Free THEN @ ELSE Advance(@)]
    /\ UNCHANGED besideArena2

Arena2Next ==
    \/ Arena2StartRun
    \/ Arena2RestartRun
    \/ Arena2PlayAgain
    \/ Arena2Pause
    \/ Arena2Resume
    \/ Arena2GotoMenu
    \/ Arena2SelectMap
    \/ Arena2Frame

Arena2Spec == Arena2Init /\ [][Arena2Next]_vars

---------------------------------------------------------------------------
(* src/unnamed/part_001, lines 631-1618: the sessions explored *)

\* the draws of one spawnEnemy() or spawnPickup()
RoadPlace(ahead, lane, type) == [ahead |-> ahead, lane |-> lane, type |-> type]

\* the four Math.random() results of one procedural section (1/1000)
Roll(len, curve, hill, lava) == [len |-> len, curve |-> curve, hill |-> hill, lava |-> lava]

\* two outcomes of the 24 draws of buildProceduralSections()
FlatRolls == [i \in 1..6 |-> Roll(0, 500, 500, 0)]
HillRolls == [i \in 1..6 |-> IF i % 2 = 1 THEN Roll(250, 900, 800, 700) ELSE Roll(0, 100, 200, 300)]

\* the draws of one buildWorld()
RoadStart(rolls) ==
    [rolls |-> rolls,
     enemies |-> << RoadPlace(0, -3000, "chaser"), RoadPlace(3000, 0, "blocker"),
                    RoadPlace(5990, 4000, "opportunist") >>]

RoadStarts == {RoadStart(FlatRolls), RoadStart(HillRolls)}

\* the Math.random() results of one update
RoadDraw(boost, jitter, sway, enemy, pickup) ==
    [boost |-> boost, jitter |-> jitter, sway |-> sway, enemy |-> enemy, pickup |-> pickup]

RoadCalm == RoadDraw(FALSE, 0, 0, RoadPlace(3000, 0, "chaser"), RoadPlace(0, 0, "cell"))
RoadWild == RoadDraw(TRUE, 400, 3000, RoadPlace(0, -7000, "opportunist"), RoadPlace(7990, 6000, "coin"))

RoadDraws == {RoadCalm, RoadWild}

\* gaps between two animation frames (ms): a clock that did not advance (a
\* coarsened performance.now()), a 50 Hz frame, a stalled tab
RoadGaps == {0, 20, 1000}

RoadPlans == {
    RoadPage(<<>>),
    \* the Ember Loop under throttle
    RoadPage(<<Begin("player"), Hold(12, Throttle)>>),
    \* a drift to the left edge of the road
    RoadPage(<<Begin("player"), Hold(8, DriftLeft)>>),
    \* the procedural course
    RoadPage(<<Pick(2), Begin("player"), Hold(3, Throttle)>>),
    \* the attract loop
    RoadPage(<<Begin("demo"), Hold(6, Coast)>>) }

RoadInit ==
    /\ road \in RoadPlans
    /\ built = NoSample
    /\ arena2 = Arena2Page("none", <<>>)
    /\ arena = ArenaPage("none", <<>>)
    /\ spline = SplinePage("none", <<>>)
    /\ section = SectionPage(<<>>)
    /\ game = bootGame("none")
    /\ activeRivals = <<>>
    /\ activePickups = <<>>
    /\ bounces = <<>>
    /\ taken = {}
    /\ nears = NoNears
    /\ intent = Input(0, FALSE, FALSE, FALSE, FALSE)
    /\ clock = BootStamp
    /\ script = <<>>
    /\ frames = 0

RoadScripted(op) == road.script # <<>> /\ Head(road.script).op = op
RoadFree == road.script = <<>>

\* #startBtn: startRun()
RoadStartRun ==
    /\ \/ /\ RoadFree
          /\ road.g.state = "menu"
          /\ \E draws \in RoadStarts : road' = startRunRoad(road, draws)
       \/ /\ RoadScripted("start")
          /\ Head(road.script).mode = "player"
          /\ road' = [startRunRoad(road, RoadStart(FlatRolls)) EXCEPT !.script = Advance(road.script)]
    /\ UNCHANGED besideRoad

\* #watchDemo: startAttract()
RoadStartAttract ==
    /\ \/ /\ RoadFree
          /\ road.g.state = "menu"
          /\ \E draws \in RoadStarts : road' = startAttractRoad(road, draws)
       \/ /\ RoadScripted("start")
          /\ Head(road.script).mode = "demo"
          /\ road' = [startAttractRoad(road, RoadStart(FlatRolls)) EXCEPT !.script = Advance(road.script)]
    /\ UNCHANGED besideRoad

\* #restartPlay, #playAgain: restartRun()
RoadRestartRun ==
    /\ RoadFree
    /\ road.g.state \in {"paused", "over"}
    /\ \E draws \in RoadStarts : road' = startRunRoad(road, draws)
    /\ UNCHANGED besideRoad

\* #pauseBtn, Escape: pauseGame()
RoadPause ==
    /\ RoadFree
    /\ road.g.state = "playing"
    /\ road' = [road EXCEPT !.g.state = "paused"]
    /\ UNCHANGED besideRoad

\* #resumeBtn, #resumePlay: resumeGame()
RoadResume ==
    /\ RoadFree
    /\ road.g.state = "paused"
    /\ road' = [road EXCEPT !.g.state = "playing"]
    /\ UNCHANGED besideRoad

\* #backToMenu, #menuReturn: gotoMenu()
RoadGotoMenu ==
    /\ RoadFree
    /\ road.g.state \in {"paused", "over"}
    /\ road' = [road EXCEPT !.g.state = "menu"]
    /\ UNCHANGED besideRoad

\* a map card of the menu: selectMap(idx)
RoadSelectMap ==
    /\ \/ /\ RoadFree
          /\ road.g.state = "menu"
          /\ \E idx \in 1..Len(RoadTracks) :
                /\ idx # road.g.mapIndex
                /\ road' = [road EXCEPT !.g.mapIndex = idx]
       \/ /\ RoadScripted("map")
          /\ road' = [road EXCEPT !.g.mapIndex = Head(road.script).idx,
                                  !.script = Advance(road.script)]
    /\ UNCHANGED besideRoad

\* the frames that can come next
RoadDeliveries ==
    IF RoadFree
    THEN {Delivery(road.clock + gap, keys, rnd) :
              gap \in RoadGaps, keys \in Keys, rnd \in RoadDraws}
    ELSE {Delivery(road.clock + 50, Head(road.script).keys, RoadCalm)}

\* requestAnimationFrame(loop)
RoadFrame ==
    /\ IF RoadFree THEN road.frames < MaxFrames ELSE Head(road.script).op = "frames"
    /\ \E d \in RoadDeliveries :
          road' = [loopRoad(road, d.now, d.keys, d.rnd) EXCEPT
                     !.clock = d.now,
                     !.frames = IF RoadFree THEN @ + 1 ELSE @,
                     !.script = IF RoadFree THEN @ ELSE Advance(@)]
    /\ UNCHANGED besideRoad

RoadNext ==
    \/ RoadStartRun
    \/ RoadStartAttract
    \/ RoadRestartRun
    \/ RoadPause
    \/ RoadResume
    \/ RoadGotoMenu
    \/ RoadSelectMap
    \/ RoadFrame

RoadSpec == RoadInit /\ [][RoadNext]_vars

---------------------------------------------------------------------------
(* src/unnamed/part_000, buildTrack: the samples of the six courses *)

TrackInit ==
    /\ built = NoSample
    /\ road = RoadPage(<<>>)
    /\ arena2 = Arena2Page("none", <<>>)
    /\ arena = ArenaPage("none", <<>>)
    /\ spline = SplinePage("none", <<>>)
    /\ section = SectionPage(<<>>)
    /\ game = bootGame("none")
    /\ activeRivals = <<>>
    /\ activePickups = <<>>
    /\ bounces = <<>>
    /\ taken = {}
    /\ nears = NoNears
    /\ intent = Input(0, FALSE, FALSE, FALSE, FALSE)
    /\ clock = BootStamp
    /\ script = <<>>
    /\ frames = 0

\* buildTrack(def): the first pass of the loop over the spaced points, for
\* the course selected
BuildFirstSample ==
    /\ built = NoSample \/ built.i = TRACK_SAMPLES
    /\ \E k \in 1..Len(SplineRanges) : built' = sampleFlags(SplineRanges[k], 0)
    /\ UNCHANGED besideTrack

\* buildTrack(def): the next pass of the loop
BuildNextSample ==
    /\ built # NoSample
    /\ built.i < TRACK_SAMPLES
    /\ \E k \in 1..Len(SplineRanges) :
          /\ SplineRanges[k].id = built.track
          /\ built' = sampleFlags(SplineRanges[k], built.i + 1)
    /\ UNCHANGED besideTrack

TrackNext ==
    \/ BuildFirstSample
    \/ BuildNextSample

TrackSpec == TrackInit /\ [][TrackNext]_vars

---------------------------------------------------------------------------
(* Claims, src/app.js *)

\* the simulation variables of the game object: all but the frame stamp
Sim(g) == [g EXCEPT !.last = Num(0)]

SimUnchanged ==
    /\ Sim(game') = Sim(game)
    /\ activeRivals' = activeRivals
    /\ activePickups' = activePickups

\* a step in which an animation frame was delivered
FrameStep == clock' # clock \/ frames' # frames

\* a frame whose dt is not a positive finite number
BadStamp ==
    \/ game'.last.k = "nan"
    \/ game.last.k = "nan"
    \/ game.last.v = 0
    \/ game'.last.v <= game.last.v

\* C1: after startRun and at the end of every executed tick the drift meter
\* is within [0, 100], the boost meter within [0, 140] and the combo
\* multiplier within [1, 9].
C1_MetersInRange ==
    /\ 0 <= game.drift /\ game.drift <= 100000
    /\ 0 <= game.boost /\ game.boost <= 140000
    /\ 10000 <= game.combo /\ game.combo <= 90000

\* a tick has ended with the boost meter at its cap and the combo at its cap
C1_Witness ==
    /\ game.lastDt > 0
    /\ \/ game.boost = 140000
       \/ game.combo = 90000 /\ game.drift = 0 /\ game.boostPulse > 0

\* C3: update is only run with a finite dt, 0 < dt <= 0.05 s; a frame whose dt
\* is not finite or not positive changes no simulation state; a stalled tab
\* advances the simulation by at most 0.05 s.
C3_DtGuard ==
    [][FrameStep =>
        /\ BadStamp => SimUnchanged
        /\ ~SimUnchanged =>
              /\ game'.lastDt > 0 /\ game'.lastDt <= 50
              /\ game'.lastDt <= game'.last.v - game.last.v
              /\ game'.runTime = game.runTime + game'.lastDt
        /\ game'.runTime - game.runTime <= 50]_vars

\* a frame without a number for its stamp was delivered in the middle of a run
\* that a stalled frame had advanced by 0.05 s
C3_Witness ==
    /\ game.state = "playing"
    /\ game.last.k = "nan"
    /\ frames = 2
    /\ game.lastDt = 50
    /\ clock - BootStamp - ScriptGap - game.runTime >= 950

\* C4: while the game is paused, in the menu or over, no frame changes any
\* simulation variable; resumeGame changes nothing but the state, and the
\* first tick run after it has dt <= 0.05 s.
C4_PauseFreezes ==
    [][/\ FrameStep /\ game.state \in {"paused", "menu", "over"} => SimUnchanged
       /\ ResumeGame =>
             /\ game' = [game EXCEPT !.state = "playing"]
             /\ activeRivals' = activeRivals /\ activePickups' = activePickups
       /\ FrameStep /\ ~SimUnchanged =>
             /\ game.state \in {"playing", "attract"}
             /\ game'.lastDt <= 50]_vars

\* paused, a second of frames went by, resumed, and the next frame ran a tick
C4_Witness ==
    /\ game.state = "playing"
    /\ frames = 2
    /\ game.lastDt = 20
    /\ game.runTime > 1000
    /\ clock - BootStamp - ScriptGap - game.runTime = 1000

\* what startRun leaves for a stored perk: defaultMods() with the perk's
\* multipliers applied once
ModsFor(perk) ==
    [grip       |-> IF perk = "grip" THEN 1140 ELSE 1000,
     steer      |-> IF perk = "steer" THEN 1120 ELSE 1000,
     boostGain  |-> IF perk = "boost" THEN 1200 ELSE 1000,
     boostDrain |-> IF perk = "boost" THEN 900 ELSE 1000,
     pickRange  |-> IF perk = "magnet" THEN 1400 ELSE 1000]

\* C5: startRun, from any state, leaves position and velocity zero, drift,
\* boost and heat 0, combo 1, score 0, runTime 0, invuln 0, onRamp false,
\* rampTakeoff 0, both spawn timers at their full intervals, game.mod equal to
\* defaultMods() with the selected perk applied exactly once, exactly two
\* active rivals and exactly one active pickup.
C5_StartRunResets ==
    [][StartRun \/ RestartRun =>
        /\ game'.pos = Zero3 /\ game'.vel = Zero3
        /\ game'.drift = 0 /\ game'.boost = 0 /\ game'.heat = 0
        /\ game'.combo = 10000 /\ game'.score = 0 /\ game'.runTime = 0
        /\ game'.invuln = 0 /\ game'.onRamp = FALSE /\ game'.rampTakeoff = 0
        /\ game'.pickupTimer = 7000 /\ game'.rivalTimer = 8000
        /\ game'.mod = ModsFor(game.perk)
        /\ Len(activeRivals') = 2 /\ Len(activePickups') = 1]_vars

\* a new run was started in the middle of a drift, with a perk equipped
C5_Witness ==
    /\ game.state = "playing"
    /\ game.runTime = 0
    /\ game.drifting
    /\ game.perk = "boost"
    /\ game.mod = ModsFor("boost")
    /\ Len(activeRivals) = 2 /\ Len(activePickups) = 1

\* C6: when clampToArena is entered with the subject farther than map.size
\* from the centre, it returns with the distance <= map.size and the
\* horizontal speed <= 0.45 times the speed on entry.
C6_ClampContains ==
    \A i \in 1..Len(bounces) :
        LET b == bounces[i]
        IN  /\ b.pos.x * b.pos.x + b.pos.z * b.pos.z > b.limit * b.limit
            /\ b.outPos.x * b.outPos.x + b.outPos.z * b.outPos.z <= b.limit * b.limit
            \* |out|^2 <= 0.45^2 |in|^2
            /\ b.outVel.x * b.outVel.x + b.outVel.z * b.outVel.z
                 <= MulDiv(b.vel.x * b.vel.x + b.vel.z * b.vel.z, 81, 400)

\* the player hit the wall at an angle
C6_Witness ==
    \E i \in 1..Len(bounces) :
        /\ bounces[i].who = "player"
        /\ bounces[i].vel.x # 0 /\ bounces[i].vel.z # 0
        /\ frames > 0

\* C7: the velocity clampToArena leaves after a relocation has no outward
\* radial component, for the player and for a rival.
C7_NoOutwardVelocity ==
    \A i \in 1..Len(bounces) :
        bounces[i].outVel.x * bounces[i].outPos.x
          + bounces[i].outVel.z * bounces[i].outPos.z <= 0

\* a rival ran into the wall
C7_Witness ==
    \E i \in 1..Len(bounces) :
        /\ bounces[i].who = "rival"
        /\ bounces[i].vel.x * bounces[i].pos.x + bounces[i].vel.z * bounces[i].pos.z > 0
        /\ frames > 0

\* C8: at the end of every tick in which the drift key is not held (the tick
\* leaves game.drifting false) the drift meter is 0.
C8_DriftZeroWhenReleased ==
    [][FrameStep /\ ~SimUnchanged /\ ~game'.drifting => game'.drift = 0]_vars

\* a drift too short to pay out was held for one frame (the car still turns
\* left) and released in the next
C8_Witness ==
    /\ game.state = "playing"
    /\ game.perk = "none"
    /\ frames = 2
    /\ game.lastDt > 0
    /\ game.yawVel < 0
    /\ ~game.drifting
    /\ game.drift = 0
    /\ game.boost = 0

\* C11: at every point of a run there are at most CFG.pickupMax (6) active
\* pickups and at most CFG.rivalMax (3) active rivals, and no pickup that
\* collectPickup took during a tick is in the active list at the end of
\* that tick.
C11_ListsCapped ==
    /\ Len(activePickups) <= CFG.pickupMax
    /\ Len(activeRivals) <= CFG.rivalMax
    /\ \A i \in 1..Len(activePickups) : activePickups[i].mesh \notin taken

\* a tick found both lists full with both spawn timers run out, spawned
\* nothing, and the player collected coins on it
C11_Witness ==
    /\ Len(activeRivals) = CFG.rivalMax /\ game.rivalTimer <= 0
    /\ game.pickupTimer <= 0
    /\ taken # {}
    /\ Len(activePickups) + Cardinality(taken) = CFG.pickupMax

\* C17: every near-miss bonus is granted with the rival strictly between 3
\* and 8 from the player, and at least 1 second of simulated time after the
\* previous bonus for the same rival.
C17_NearMissSpaced ==
    \A k \in 1..Len(nears.grants) :
        /\ nears.grants[k].d2 > 900
        /\ nears.grants[k].d2 < 6400
        /\ nears.grants[k].prev >= 0 => nears.grants[k].at - nears.grants[k].prev >= 1000

\* a rival earns the player a second bonus
C17_Witness ==
    \E k \in 1..Len(nears.grants) : nears.grants[k].prev >= 0

\* a step in which tick(now) ran update(dt)
TickStep ==
    /\ clock' # clock
    /\ game.state \in {"playing", "attract"}
    /\ game'.runTime > game.runTime

\* the update of the step held a positive combo event: the drift held above
\* 25 charge, a drift released with charge, a pickup collected, a near miss
ComboGain ==
    \/ game'.drifting /\ game'.drift > 25000
    \/ game.drifting /\ ~game'.drifting /\ game.drift > 5000
    \/ taken' # {}
    \/ nears'.grants # <<>>

\* C18: the combo timer is reset to its full window by positive combo events
\* only: on a tick without one (a combo penalty included) the timer just runs
\* down by dt, as far as 0.
C18_TimerResetOnlyByGains ==
    [][TickStep /\ ~ComboGain
         => game'.comboTimer = Max(0, game.comboTimer - (game'.runTime - game.runTime))]_vars

\* C19: after a tick has updated the rivals, the speed of each is at most the
\* player's speed of that tick times CFG.rivalMaxFactor.
C19_RivalSpeedCapped ==
    [][TickStep
         => \A i \in 1..Len(activeRivals) :
               activeRivals'[i].speed * 1000 <= game'.speed * CFG.rivalMaxFactor]_vars

\* C20: in attract mode the intent autoInput returned is a function of the
\* accumulated autopilot time only: whatever the frame's random draw, it is
\* the intent that autopilot time gives.
C20_IntentFromTimeOnly ==
    game.state = "attract" /\ game.autopilotTime > 0
        => \A draw \in BOOLEAN : intent = autoInput(game.autopilotTime, draw)


\* C26: after a rival contact respawns the player no further respawn occurs
\* for at least 1.25 s of run time, and at most one respawn occurs in a
\* single tick.
C26_RespawnSpaced ==
    /\ Len(nears.hits) <= 1
    /\ \A k \in 1..Len(nears.hits) :
          nears.hits[k].prev >= 0 => nears.hits[k].at - nears.hits[k].prev >= 1250

\* a second respawn of the run
C26_Witness ==
    \E k \in 1..Len(nears.hits) : nears.hits[k].prev >= 0

\* the latest update respawned the player
Respawned == nears.hits # <<>>

\* C27: a tick launches the player off the floor only if the tick before
\* left the player on a ramp and did not respawn it; on the first tick after
\* respawnPlayer the player stays at height 0 with no vertical velocity
\* unless the respawn position lies on a ramp.
C27_LaunchOnlyOffRamp ==
    [][TickStep =>
         /\ (~game'.onRamp /\ game'.vel.y > 0) => (game.onRamp /\ ~Respawned)
         /\ (Respawned /\ ~game'.onRamp) => (game'.pos.y = 0 /\ game'.vel.y = 0)]_vars

---------------------------------------------------------------------------
(* Claims, src/unnamed/part_000 *)

\* C2: at the end of every tick of the spline-track variant, heat is within
\* [0, 100], whatever the keys held and wherever the rivals are.
C2_HeatInRange == spline.g.heat >= 0 /\ spline.g.heat <= 100000

\* a step in which tick(now) ran update(dt)
SplineTickStep ==
    /\ spline'.clock # spline.clock
    /\ spline.g.state \in {"playing", "attract"}

\* the penalty timer run down by the dt of the step, as far as 0
SplineRanDown == Max(0, spline.g.overheat - (spline'.g.runTime - spline.g.runTime))

\* C16: on every tick of the spline-track variant the overheat timer either
\* runs down by dt (as far as 0) or is set to CFG.overheatDuration; it is set
\* only when it has run out and applyHeat found the heat at 100, so a running
\* penalty is neither restarted nor extended; and a tick ends the run only by
\* finishing the last lap, never because of heat.
C16_OverheatFixedDuration ==
    [][SplineTickStep
         => /\ \/ spline'.g.overheat = SplineRanDown
               \/ /\ spline'.g.overheat = SplineCFG.overheatDuration
                  /\ SplineRanDown = 0
                  /\ spline'.cooled >= 100000
            /\ spline'.g.state = "over" => spline'.g.lap > Ember.laps]_vars

\* the penalty has run down to its last frame with the heat still at 100
C16_Witness ==
    /\ spline.g.state = "playing"
    /\ spline.g.overheat > 0
    /\ spline.g.overheat <= SplineCFG.dtMax
    /\ spline.cooled >= 100000

\* the ranges of the course a sample was built for
RangesOf(id) == CHOOSE def \in {SplineRanges[k] : k \in 1..Len(SplineRanges)} : def.id = id

\* u = i / TRACK_SAMPLES lies in the half-open wrapping range [from, to) of
\* some range of the list
InHalfOpen(list, i) ==
    \E k \in 1..Len(list) :
        IF list[k].from <= list[k].to
        THEN i * 1000 >= list[k].from * TRACK_SAMPLES /\ i * 1000 < list[k].to * TRACK_SAMPLES
        ELSE i * 1000 >= list[k].from * TRACK_SAMPLES \/ i * 1000 < list[k].to * TRACK_SAMPLES

\* C22: a track sample is tagged hazard (or boost) exactly when its
\* normalized position lies in the half-open range [from, to) of some
\* configured range: u = from is tagged, u = to is not.
C22_ZoneRangesHalfOpen ==
    built # NoSample =>
        /\ built.hazard = InHalfOpen(RangesOf(built.track).hazards, built.i)
        /\ built.boost = InHalfOpen(RangesOf(built.track).boosts, built.i)

\* C23: the score recordScore persists is game.score at the end of the
\* terminating tick: while the run is over, the stored best is not below
\* game.score (nothing adds to the score once endRun has recorded it).
C23_RecordedScoreFinal ==
    spline.g.state = "over" => spline.g.best >= spline.g.score

\* C24: on a tick where boost is held and boost > 0, the player's speed
\* after the boost-burn step is at least its speed immediately before that
\* step.
C24_BurnNeverSlows ==
    spline.burn.fired => spline.burn.after >= spline.burn.before

---------------------------------------------------------------------------
\* C30: one continuous contact with a rival (consecutive ticks with track
\* distance below 14 and lane difference below 1) penalises the player at most
\* once: after a shield absorbed it no bump is applied for the rest of the
\* contact, and otherwise bump is applied on only one tick of the contact
C30_ContactPenalisedOnce ==
    \A i \in 1..Len(spline.rivals) :
        /\ spline.rivals[i].contact.bumps <= 1
        /\ spline.rivals[i].contact.absorbed => spline.rivals[i].contact.bumps = 0

(* Claims, src/unnamed/part_001, lines 9-621 *)

\* a step in which raf() ran update(dt)
SectionTickStep ==
    /\ section'.clock # section.clock
    /\ section.g.state \in {"playing", "attract"}

---------------------------------------------------------------------------
(* Claims, src/unnamed/part_001, lines 3236-4679 *)

\* C10: the velocity with which the arena variant advances the player's
\* position is never longer than CFG.maxSpeed * speedScale * 1.25.
C10_MoveVelocityCapped ==
    arena.moveVel.x * arena.moveVel.x + arena.moveVel.z * arena.moveVel.z
        <= boostCapArena * boostCapArena

\* C12: when a rival contact (distance below 2.85, hit cooldown expired)
\* finds the player holding a shield, the shield flag is cleared and the
\* contact changes neither the player's velocity nor the player's heat.
C12_ShieldAbsorbsContact ==
    \A i \in 1..Len(arena.hits) :
        arena.hits[i].shield =>
            /\ ~arena.hits[i].outShield
            /\ arena.hits[i].outVel = arena.hits[i].vel
            /\ arena.hits[i].outHeat = arena.hits[i].heat

\* C13: right after the separation step of a player-rival contact that began
\* with the two closer than 2.85, their distance is at least 2.85.
C13_SeparatedAfterContact ==
    \A i \in 1..Len(arena.hits) :
        (arena.hits[i].P.x - arena.hits[i].R.x) * (arena.hits[i].P.x - arena.hits[i].R.x)
          + (arena.hits[i].P.z - arena.hits[i].R.z) * (arena.hits[i].P.z - arena.hits[i].R.z)
            >= 28500 * 28500

\* a rival ran into the player and overlapped by more than 0.1
C13_Witness ==
    \E i \in 1..Len(arena.hits) : arena.hits[i].pen > 100

\* C14: a rival bouncing off the arena boundary changes neither the player's
\* heat nor the player's shield flag.
C14_RivalBounceSparesPlayer ==
    \A i \in 1..Len(arena.rivalBounces) :
        /\ arena.rivalBounces[i].outHeat = arena.rivalBounces[i].heat
        /\ arena.rivalBounces[i].outShield = arena.rivalBounces[i].shield

\* the square of the distance of a place from the arena centre
FromCentre2(pos) == pos.x * pos.x + pos.z * pos.z

\* C29: at the end of every tick the player and every active rival are at a
\* distance of at most map.size from the arena centre, also when a collision
\* separated two vehicles after the boundary clamp.
C29_InsideArena ==
    arena.g.state \in {"playing", "attract", "paused", "over"} =>
        /\ FromCentre2(arena.g.pos) <= ArenaMaps[arena.g.map].size * ArenaMaps[arena.g.map].size
        /\ \A i \in 1..Len(arena.rivals) :
              FromCentre2(arena.rivals[i].pos)
                  <= ArenaMaps[arena.g.map].size * ArenaMaps[arena.g.map].size

---------------------------------------------------------------------------
(* Claims, src/unnamed/part_001, lines 2324-3214 *)

\* a step in which tick(now) ran update(dt)
Arena2TickStep ==
    /\ arena2'.clock # arena2.clock
    /\ arena2.g.state \in {"playing", "attract"}

\* C15: no tick both starts the grip-penalty timer (game.overheat) and ends
\* the run: reaching 100 heat has one of the two consequences, never both.
C15_OverheatOneConsequence ==
    [][Arena2TickStep
         => ~(/\ arena2.g.overheat <= 0 /\ arena2'.g.overheat > 0
              /\ arena2'.g.state = "over")]_vars

---------------------------------------------------------------------------
(* Claims, src/unnamed/part_001, lines 631-1618 *)

\* the simulation state of the pseudo-3D page: all but the frame stamp
RoadSim(W) == [g |-> [W.g EXCEPT !.lastFrame = 0], enemies |-> W.enemies, pickups |-> W.pickups]

\* an animation frame of the pseudo-3D page
RoadFrameStep ==
    /\ road' # road
    /\ IF RoadFree THEN road'.frames # road.frames ELSE Head(road.script).op = "frames"

\* the simulation state of the section-track page: all but the frame stamp
SectionSim(W) == [g |-> [W.g EXCEPT !.last = 0], enemies |-> W.enemies, pickups |-> W.pickups]

\* an animation frame of the section-track page
SectionFrameStep ==
    /\ section' # section
    /\ IF section.script = <<>> THEN section'.frames # section.frames
       ELSE Head(section.script).op = "frames"

\* C25: in the section-track page (frame callback, line 617) and the
\* pseudo-3D page (loop, lines 1055-1062) a frame whose dt is zero or
\* negative is skipped: it changes no simulation state.
C25_BadFrameSkipped ==
    [][/\ (RoadFrameStep /\ road'.clock <= road.clock) => RoadSim(road') = RoadSim(road)
       /\ (SectionFrameStep /\ section'.clock <= section.clock)
             => SectionSim(section') = SectionSim(section)]_vars

\* a run of the procedural course is built over a procedural course already built
RoadRebuild ==
    /\ road.g.mapIndex = 2
    /\ road.g.track.laps = Endless
    /\ road'.g.track.laps = Endless
    /\ road'.g.time = 0
    /\ road'.g.state \in {"playing", "attract"}
    /\ road.g.state \in {"menu", "paused", "over"}

\* C21: building the procedural course again (the page holds no seed that
\* differs between two builds) yields the identical sequence of sections,
\* hence of segments: length, curve, hill and hazard flags.
C21_ProceduralCourseRepeats ==
    [][RoadRebuild => road'.g.track = road.g.track]_vars

===========================================================================
